---- MODULE Spec2Model ----
(***************************************************************************)
(* Model of the OpenChat server: the two-tier chat fallback orchestrator   *)
(* (server/openai.ts, server/fallbackChat.ts), the POST /api/chat and GET  *)
(* /api/model-status routes and the conversation routes (server/routes.ts),*)
(* the storage layer they use, and generateImage.                          *)
(*                                                                         *)
(* Node runs one handler at a time; a handler gives up control only at an  *)
(* await on real I/O (a database query, a provider HTTP call).  Each       *)
(* action below is the code that runs between two such awaits.             *)
(*                                                                         *)
(* Text is a sequence of atoms.  Most atoms are single characters; the     *)
(* word "think" and each fixed message of the program is one atom.         *)
(*                                                                         *)
(* Five specifications: Spec, the server with chat requests interleaving   *)
(* at one instant; SpecClock, the server with its clock running and one    *)
(* chat request at a time; SpecFn, the functions that depend on their      *)
(* arguments alone (prompt composition, clean-up, error classification,    *)
(* availability checks), each applied once to an argument drawn at start;  *)
(* SpecApi, chat requests interleaved with the conversation routes (read   *)
(* messages, delete, update title, update personality) over the storage    *)
(* layer; SpecImage, one call of generateImage with its polling loop.      *)
(***************************************************************************)
EXTENDS Integers, Sequences, FiniteSets, TLC

VARIABLES
    openaiKey,          \* process.env.OPENAI_API_KEY
    novitaKey,          \* novitaApiKey (fallbackChat.ts)
    currentModel,       \* openai.ts: let currentModel
    currentModelStatus, \* routes.ts: let currentModelStatus
    now,                \* the wall clock (Date.now()), in minutes
    conversations,      \* table conversations: id -> row, or NoRow
    messages,           \* table messages, in insertion order
    nextMessageId,      \* the serial of messages.id: the id of the next row
    lastCreatedAt,      \* the clock (new Date()) at the last createMessage call
    nanoids,            \* how many ids nanoid() has generated
    req,                \* the chat requests in flight, one record per slot
    started,            \* number of chat requests started so far
    statusResp,         \* body of the last GET /api/model-status response
    statusAt,           \* time of the last GET /api/model-status, -1: none
    fn                  \* a function applied on its own: name, input, result

vars == <<openaiKey, novitaKey, currentModel, currentModelStatus, now,
          conversations, messages, nextMessageId, lastCreatedAt, nanoids, req,
          started, statusResp, statusAt, fn>>

----------------------------------------------------------------------------
(* Bounds *)

\* number of request slots, i.e. chat requests that can be in flight at once
NumSlots == 2
\* total number of chat requests in one behaviour
MaxRequests == 2
\* the clock stops here
MaxTime == 7
MaxClockChats == 1      \* chat requests in a run of SpecClock
MaxTurns == 2           \* messages of a transcript given to a prompt composer
MaxPieces == 4          \* pieces of a text the Qwen model returns

Slots == 1..NumSlots

----------------------------------------------------------------------------
(* Values *)

\* an environment variable that is not set
Undefined == <<"undefined">>
NoRow == [id |-> "none"]
\* req.user of a request that is not authenticated; userId NULL
NoUser == "nobody"
Users == {"u1", "u2"}

\* GET /api/model-status: 5 * 60 * 1000 ms, in minutes
FiveMinutes == 5

\* canUseOpenAI: apiKey.length > 20
MinKeyLength == 20

Key(prefix, n) == prefix \o [i \in 1..(n - Len(prefix)) |-> "x"]

OpenAIKeys == {Undefined, Key(<<"s", "k", "-">>, MinKeyLength + 1)}
NovitaKeys == {<<>>, <<"n", "v">>}

\* fixed messages of the program
OpenAIDefaultText == <<"I'm sorry, I couldn't generate a response.">>
QwenDefaultText == <<"I'm sorry, I couldn't generate a proper response.">>
FallbackNote == <<"\n", "\n", "(Note: I'm currently operating in fallback mode using the Qwen model because the OpenAI API is unavailable)">>
FallbackApology == <<"I apologize, but I'm currently experiencing technical difficulties with both primary and fallback AI services. Please try again later.">>
BothUnavailableMessage == "Both OpenAI and Qwen models are unavailable. Please check your API keys."

----------------------------------------------------------------------------
(* fallbackChat.ts: availability checks *)

StartsWith(s, p) == Len(s) >= Len(p) /\ SubSeq(s, 1, Len(p)) = p

\* canUseOpenAI taking a key of exactly the minimum length
canUseOpenAIAtLeast(apiKey) ==
    /\ apiKey # Undefined
    /\ StartsWith(apiKey, <<"s", "k", "-">>)
    /\ Len(apiKey) >= MinKeyLength

canUseOpenAI(apiKey) ==
    /\ apiKey # Undefined
    /\ apiKey # <<>>
    /\ StartsWith(apiKey, <<"s", "k", "-">>)
    /\ Len(apiKey) > MinKeyLength

canUseQwen(apiKey) == apiKey # <<>> /\ Len(apiKey) > 0

\* line 8: process.env.NOVITA_API_KEY || ''
novitaApiKey(env) == IF env = Undefined THEN <<>> ELSE env

----------------------------------------------------------------------------
(* fallbackChat.ts: clean-up of the text the Qwen model returns *)

\* \s of a JavaScript regular expression, which is also what trim() removes:
\* space, \n, \t, \r, \f, the vertical tab U+000B, the no-break space U+00A0,
\* U+FEFF and the other Unicode spaces.  A character that cannot be written
\* in a string of this module is the atom that names its code point.
SpaceChars ==
    {" ", "\n", "\t", "\r", "\f", "", " ", "﻿",
     "U+1680", "U+2000", "U+2001", "U+2002", "U+2003", "U+2004",
     "U+2005", "U+2006", "U+2007", "U+2008", "U+2009", "U+200A",
     "U+2028", "U+2029", "U+202F", "U+205F", "U+3000"}

IsSpace(c) == c \in SpaceChars

IsThinkOpen(s, i) ==
    i + 2 <= Len(s) /\ s[i] = "<" /\ s[i + 1] = "think" /\ s[i + 2] = ">"

IsThinkClose(s, i) ==
    /\ i + 3 <= Len(s)
    /\ s[i] = "<" /\ s[i + 1] = "/" /\ s[i + 2] = "think" /\ s[i + 3] = ">"

Min(S) == CHOOSE x \in S : \A y \in S : x <= y

\* content.replace(/<think>[\s\S]*?<\/think>/g, '')
RECURSIVE StripThinkFrom(_, _)
StripThinkFrom(s, i) ==
    IF i > Len(s) THEN <<>>
    ELSE LET closes == {j \in (i + 3)..Len(s) : IsThinkClose(s, j)}
         IN  IF IsThinkOpen(s, i) /\ closes # {}
             THEN StripThinkFrom(s, Min(closes) + 4)
             ELSE <<s[i]>> \o StripThinkFrom(s, i + 1)

StripThink(s) == StripThinkFrom(s, 1)

\* content.replace(/<[^>]*>/g, '')
RECURSIVE StripTagsFrom(_, _)
StripTagsFrom(s, i) ==
    IF i > Len(s) THEN <<>>
    ELSE LET closes == {j \in (i + 1)..Len(s) : s[j] = ">"}
         IN  IF s[i] = "<" /\ closes # {}
             THEN StripTagsFrom(s, Min(closes) + 1)
             ELSE <<s[i]>> \o StripTagsFrom(s, i + 1)

StripTags(s) == StripTagsFrom(s, 1)

\* content.replace(/^\s+|\s+$/g, '')
RECURSIVE TrimLeft(_)
TrimLeft(s) ==
    IF s # <<>> /\ IsSpace(Head(s)) THEN TrimLeft(Tail(s)) ELSE s

RECURSIVE TrimRight(_)
TrimRight(s) ==
    IF s # <<>> /\ IsSpace(s[Len(s)])
    THEN TrimRight(SubSeq(s, 1, Len(s) - 1))
    ELSE s

Trim(s) == TrimRight(TrimLeft(s))

\* length of the run of newlines that starts at s[i]
RECURSIVE NewlineRun(_, _)
NewlineRun(s, i) ==
    IF i <= Len(s) /\ s[i] = "\n" THEN 1 + NewlineRun(s, i + 1) ELSE 0

\* content.replace(/\n{3,}/g, '\n\n')
RECURSIVE CollapseNewlinesFrom(_, _)
CollapseNewlinesFrom(s, i) ==
    IF i > Len(s) THEN <<>>
    ELSE LET n == NewlineRun(s, i)
         IN  IF n >= 3 THEN <<"\n", "\n">> \o CollapseNewlinesFrom(s, i + n)
             ELSE <<s[i]>> \o CollapseNewlinesFrom(s, i + 1)

CollapseNewlines(s) == CollapseNewlinesFrom(s, 1)

\* CleanContent leaving the XML-like tags in
CleanContentKeepTags(raw) ==
    LET content == CollapseNewlines(Trim(StripThink(raw)))
    IN  IF Trim(content) = <<>> THEN QwenDefaultText ELSE content

\* the clean-up chain of generateFallbackResponse, before the note is added
CleanContent(raw) ==
    LET content == CollapseNewlines(Trim(StripTags(StripThink(raw))))
    IN  IF Trim(content) = <<>> THEN QwenDefaultText ELSE content

----------------------------------------------------------------------------
(* Regular expressions of the prompt composers, on texts of characters *)

Null == <<"null">>          \* no match; no text is this one atom

UpperCase == <<"A", "B", "C", "D", "E", "F", "G", "H", "I", "J", "K", "L", "M",
               "N", "O", "P", "Q", "R", "S", "T", "U", "V", "W", "X", "Y", "Z">>
LowerCase == <<"a", "b", "c", "d", "e", "f", "g", "h", "i", "j", "k", "l", "m",
               "n", "o", "p", "q", "r", "s", "t", "u", "v", "w", "x", "y", "z">>
Digits == {"0", "1", "2", "3", "4", "5", "6", "7", "8", "9"}

Range(f) == {f[i] : i \in DOMAIN f}

\* \w
WordChars == Range(UpperCase) \cup Range(LowerCase) \cup Digits \cup {"_"}

\* the i flag of a regular expression without the u flag: a character outside
\* ASCII is never made equal to an ASCII one, so against the ASCII literals
\* of the patterns only A-Z are folded
ToLower(c) ==
    IF c \in Range(UpperCase)
    THEN LowerCase[CHOOSE i \in DOMAIN UpperCase : UpperCase[i] = c]
    ELSE c

\* String.prototype.toLowerCase: A-Z, the capital letters of Latin-1, and the
\* two characters outside ASCII whose lower case is or begins with an ASCII
\* letter, the Kelvin sign U+212A (k) and U+0130 (i followed by U+0307).
\* Letters of other scripts are not among the atoms of the texts here.
RECURSIVE toLowerCase(_)
toLowerCase(s) ==
    LET upper == UpperCase \o
                 <<"À", "Á", "Â", "Ã", "Ä", "Å", "Æ", "Ç", "È", "É",
                   "Ê", "Ë", "Ì", "Í", "Î", "Ï", "Ð", "Ñ", "Ò", "Ó",
                   "Ô", "Õ", "Ö", "Ø", "Ù", "Ú", "Û", "Ü", "Ý", "Þ">>
        lower == LowerCase \o
                 <<"à", "á", "â", "ã", "ä", "å", "æ", "ç", "è", "é",
                   "ê", "ë", "ì", "í", "î", "ï", "ð", "ñ", "ò", "ó",
                   "ô", "õ", "ö", "ø", "ù", "ú", "û", "ü", "ý", "þ">>
        lowerOf(c) ==
            IF c = "U+0130" THEN <<"i", "U+0307">>
            ELSE IF c = "U+212A" THEN <<"k">>
            ELSE IF c \in Range(upper)
            THEN <<lower[CHOOSE i \in DOMAIN upper : upper[i] = c]>>
            ELSE <<c>>
    IN  IF s = <<>> THEN <<>>
        ELSE lowerOf(Head(s)) \o toLowerCase(Tail(s))

\* String.prototype.includes
includes(s, lit) ==
    \E i \in 1..(Len(s) - Len(lit) + 1) : SubSeq(s, i, i + Len(lit) - 1) = lit

\* the literal lit, written in lower case, matches at s[i] under the i flag
LitAt(s, i, lit) ==
    /\ i + Len(lit) - 1 <= Len(s)
    /\ \A k \in 1..Len(lit) : ToLower(s[i + k - 1]) = lit[k]

\* length of the longest run of characters of class that starts at s[i]
RECURSIVE RunLen(_, _, _)
RunLen(s, i, class) ==
    IF i <= Len(s) /\ s[i] \in class THEN 1 + RunLen(s, i + 1, class) ELSE 0

\* (?:\s*:\s*|\s+)([class]+) matched at s[j], class containing \s: the text
\* captured.  Both greedy \s* and \s+ give back one character when nothing
\* else is left for the capture group.
SepCapture(s, j, class) ==
    LET w == RunLen(s, j, SpaceChars)
        b == j + w + 1                          \* just after the colon
        v == RunLen(s, b, SpaceChars)
        R == RunLen(s, b, class)
        Q == RunLen(s, j, class)
    IN  IF j + w <= Len(s) /\ s[j + w] = ":" /\ R >= 1
        THEN IF R > v THEN SubSeq(s, b + v, b + R - 1)
                      ELSE SubSeq(s, b + v - 1, b + R - 1)
        ELSE IF w >= 1 /\ Q > w THEN SubSeq(s, j + w, j + Q - 1)
        ELSE IF w >= 2 THEN SubSeq(s, j + w - 1, j + w - 1)
        ELSE Null

\* (?:\s+copula)?(?:\s*:\s*|\s+)([class]+) matched at s[j]
AfterKey(s, j, copula, class) ==
    LET w == RunLen(s, j, SpaceChars)
        withCopula == IF w >= 1 /\ LitAt(s, j + w, copula)
                      THEN SepCapture(s, j + w + Len(copula), class)
                      ELSE Null
    IN  IF withCopula # Null THEN withCopula ELSE SepCapture(s, j, class)

\* the first element of the sequence that is not Null, or Null
RECURSIVE FirstMatch(_)
FirstMatch(results) ==
    IF results = <<>> THEN Null
    ELSE IF Head(results) # Null THEN Head(results)
    ELSE FirstMatch(Tail(results))

\* s.match(/key(?:\s+copula)?(?:\s*:\s*|\s+)([class]+)/i)[1], or Null: the
\* match at the leftmost position that has one; keys lists the texts the key
\* can match, in the order the engine tries them
KeyPattern(s, keys, copula, class) ==
    FirstMatch([i \in 1..Len(s) |->
        FirstMatch([k \in 1..Len(keys) |->
            IF LitAt(s, i, keys[k])
            THEN AfterKey(s, i + Len(keys[k]), copula, class)
            ELSE Null])])

\* s.match(/(?:lit1|lit2|...) ([class]+)/i)[1], or Null; each literal ends
\* with the space that precedes the capture group
PhrasePattern(s, lits, class) ==
    FirstMatch([i \in 1..Len(s) |->
        FirstMatch([k \in 1..Len(lits) |->
            LET e == i + Len(lits[k])
            IN  IF LitAt(s, i, lits[k]) /\ RunLen(s, e, class) >= 1
                THEN SubSeq(s, e, e + RunLen(s, e, class) - 1)
                ELSE Null])])

----------------------------------------------------------------------------
(* fallbackChat.ts: convertMessages *)

\* a value JavaScript takes as true: neither undefined, null nor ''
Truthy(x) == x # Undefined /\ x # Null /\ x # <<>>

\* QWEN_SYSTEM_MESSAGE, lines 16-23, before and after {botInstructions}
QwenTemplateHead == <<"I am your helpful AI assistant. [...] Bot Instructions: ">>
QwenTemplateTail == <<"\n\nRemember:\n1. Do not use XML tags in responses [...]">>

\* getMatchValue, lines 34-39
getMatchValue(match) ==
    IF match # Null /\ match # <<>> THEN Trim(match) ELSE Null

\* [...].filter(Boolean), then the first element or null (lines 47, 72)
FirstTruthy(values) ==
    FirstMatch([k \in 1..Len(values) |->
        IF Truthy(values[k]) THEN values[k] ELSE Null])

\* the literals of the patterns (lower case where the pattern has the i flag),
\* of the Bella test and of the name questions, lines 43-69, 80, 119-123
Lit ==
    [ nameKey |-> <<"n", "a", "m", "e">>,
      is |-> <<"i", "s">>,
      are |-> <<"a", "r", "e">>,
      myNameIs |-> <<"m", "y", " ", "n", "a", "m", "e", " ", "i", "s", " ">>,
      iAm |-> <<"i", " ", "a", "m", " ">>,
      iM |-> <<"i", "'", "m", " ">>,
      locationKey |-> <<"l", "o", "c", "a", "t", "i", "o", "n">>,
      iLiveIn |-> <<"i", " ", "l", "i", "v", "e", " ", "i", "n", " ">>,
      iMFromIn |-> <<"i", "'", "m", " ", "f", "r", "o", "m", " ", "i", "n",
          " ">>,
      iResideIn |-> <<"i", " ", "r", "e", "s", "i", "d", "e", " ", "i", "n",
          " ">>,
      from |-> <<"f", "r", "o", "m", " ">>,
      interestsKey |-> <<"i", "n", "t", "e", "r", "e", "s", "t", "s">>,
      iLike |-> <<"i", " ", "l", "i", "k", "e", " ">>,
      iEnjoy |-> <<"i", " ", "e", "n", "j", "o", "y", " ">>,
      iLove |-> <<"i", " ", "l", "o", "v", "e", " ">>,
      professionKey |-> <<"p", "r", "o", "f", "e", "s", "s", "i", "o", "n">>,
      iWorkAs |-> <<"i", " ", "w", "o", "r", "k", " ", "a", "s", " ">>,
      iAmAn |-> <<"i", " ", "a", "m", " ", "a", "n", " ">>,
      iAmA |-> <<"i", " ", "a", "m", " ", "a", " ">>,
      iMAn |-> <<"i", "'", "m", " ", "a", "n", " ">>,
      iMA |-> <<"i", "'", "m", " ", "a", " ">>,
      petsKey |-> <<"p", "e", "t", "s">>,
      petKey |-> <<"p", "e", "t">>,
      iHaveAPet |-> <<"i", " ", "h", "a", "v", "e", " ", "a", " ", "p", "e",
          "t", " ">>,
      iHavePets |-> <<"i", " ", "h", "a", "v", "e", " ", "p", "e", "t", "s",
          " ">>,
      iHaveA |-> <<"i", " ", "h", "a", "v", "e", " ", "a", " ">>,
      iOwnAPet |-> <<"i", " ", "o", "w", "n", " ", "a", " ", "p", "e", "t",
          " ">>,
      iOwnPets |-> <<"i", " ", "o", "w", "n", " ", "p", "e", "t", "s", " ">>,
      iOwnA |-> <<"i", " ", "o", "w", "n", " ", "a", " ">>,
      bellaLawrence |-> <<"B", "e", "l", "l", "a", " ", "L", "a", "w", "r",
          "e", "n", "c", "e">>,
      bella |-> <<"B", "e", "l", "l", "a">>,
      whatsMyName |-> <<"w", "h", "a", "t", "'", "s", " ", "m", "y", " ",
          "n", "a", "m", "e">>,
      whatIsMyName |-> <<"w", "h", "a", "t", " ", "i", "s", " ", "m", "y",
          " ", "n", "a", "m", "e">>,
      doYouKnowMyName |-> <<"d", "o", " ", "y", "o", "u", " ", "k", "n", "o",
          "w", " ", "m", "y", " ", "n", "a", "m", "e">>,
      whoAmI |-> <<"w", "h", "o", " ", "a", "m", " ", "i">> ]

\* the character classes of the capture groups
Class ==
    [ name |-> WordChars \cup SpaceChars \cup {".", "'"},
      location |-> WordChars \cup SpaceChars \cup {".", ","},
      interests |-> WordChars \cup SpaceChars \cup {",", ".", ";"},
      profession |-> WordChars \cup SpaceChars \cup {"&", ",", ".", "-"},
      pets |-> WordChars \cup SpaceChars \cup {",", ".", "(", ")"} ]

\* lines 42-47: what each of the four name patterns gives
nameMatches(ctx) ==
    << getMatchValue(KeyPattern(ctx, <<Lit.nameKey>>, Lit.is, Class.name)),
       getMatchValue(PhrasePattern(ctx, <<Lit.myNameIs>>, Class.name)),
       getMatchValue(PhrasePattern(ctx, <<Lit.iAm>>, Class.name)),
       getMatchValue(PhrasePattern(ctx, <<Lit.iM>>, Class.name)) >>

\* lines 49-53
locationMatches(ctx) ==
    << getMatchValue(KeyPattern(ctx, <<Lit.locationKey>>, Lit.is, Class.location)),
       getMatchValue(PhrasePattern(ctx,
           <<Lit.iLiveIn, Lit.iMFromIn, Lit.iResideIn>>, Class.location)),
       getMatchValue(PhrasePattern(ctx, <<Lit.from>>, Class.location)) >>

\* lines 55-58
interestsMatches(ctx) ==
    << getMatchValue(KeyPattern(ctx, <<Lit.interestsKey>>, Lit.are,
                                Class.interests \cup {"{", "}"})),
       getMatchValue(PhrasePattern(ctx,
           <<Lit.iLike, Lit.iEnjoy, Lit.iLove>>, Class.interests)) >>

\* lines 60-64
professionMatches(ctx) ==
    << getMatchValue(KeyPattern(ctx, <<Lit.professionKey>>, Lit.is, Class.profession)),
       getMatchValue(PhrasePattern(ctx,
           <<Lit.iWorkAs, Lit.iAmA, Lit.iMA>>, Class.profession)),
       getMatchValue(PhrasePattern(ctx,
           <<Lit.iMA, Lit.iMAn, Lit.iAmA, Lit.iAmAn>>, Class.profession)) >>

\* lines 66-69
petsMatches(ctx) ==
    << getMatchValue(KeyPattern(ctx, <<Lit.petsKey, Lit.petKey>>, Lit.are, Class.pets)),
       getMatchValue(PhrasePattern(ctx,
           <<Lit.iHaveAPet, Lit.iHavePets, Lit.iHaveA,
             Lit.iOwnAPet, Lit.iOwnPets, Lit.iOwnA>>, Class.pets)) >>

\* line 72: the first successful match, or Null
userName(ctx) == FirstTruthy(nameMatches(ctx))

\* lines 78-89
BellaInfo == <<"\n- Your name is Bella Lawrence\n- You live in Fort Wayne, Indiana [...]\n">>

bellaInfo(ctx) ==
    IF includes(ctx, Lit.bellaLawrence)
       \/ (Truthy(userName(ctx)) /\ includes(userName(ctx), Lit.bella))
    THEN BellaInfo ELSE <<>>

\* one line of userInfo, lines 93-97
InfoLine(label, value) ==
    IF Truthy(value) THEN <<label>> \o value \o <<"\n">> ELSE <<>>

\* lines 73-76, 92-97
userInfo(ctx) ==
    InfoLine("- Your name is ", userName(ctx))
    \o InfoLine("- You live in ", FirstTruthy(locationMatches(ctx)))
    \o InfoLine("- Your interests include ",
                FirstTruthy(interestsMatches(ctx)))
    \o InfoLine("- Your profession is ",
                FirstTruthy(professionMatches(ctx)))
    \o InfoLine("- You have pets: ", FirstTruthy(petsMatches(ctx)))

\* line 100
profileInfo(ctx) ==
    IF bellaInfo(ctx) # <<>> THEN bellaInfo(ctx)
    ELSE IF userInfo(ctx) # <<>> THEN userInfo(ctx)
    ELSE ctx

UserDetailsHeading == "\n\nUser Details:\n"
QwenInstructions == "\n\nINSTRUCTIONS:\n1. When asked \"What's my name?\" [...]"
ReminderHead == "\n\nIMPORTANT REMINDER: The user has asked about their name. Their name is "
ReminderTail == ". DO NOT say you don't know their name."

\* lines 117-125
NameQuestions == {Lit.whatsMyName, Lit.whatIsMyName, Lit.doYouKnowMyName, Lit.whoAmI}

hasNameQuestion(msgs) ==
    \E k \in 1..Len(msgs) : \E q \in NameQuestions :
        includes(toLowerCase(msgs[k].content), q)

\* lines 127-131
NameReminder(ctx) ==
    <<ReminderHead>>
    \o (IF Truthy(userName(ctx)) THEN userName(ctx) ELSE Lit.bellaLawrence)
    \o <<ReminderTail>>

\* String.prototype.replace with a text as replacement: $$ stands for $, $&
\* for the text matched, $` and $' for the text before and after the match
RECURSIVE Expand(_, _, _, _, _)
Expand(replacement, i, before, matched, after) ==
    IF i > Len(replacement) THEN <<>>
    ELSE IF replacement[i] = "$" /\ i < Len(replacement)
            /\ replacement[i + 1] \in {"$", "&", "U+0060", "'"}
    THEN (CASE replacement[i + 1] = "$" -> <<"$">>
            [] replacement[i + 1] = "&" -> matched
            [] replacement[i + 1] = "U+0060" -> before
            [] replacement[i + 1] = "'" -> after)
         \o Expand(replacement, i + 2, before, matched, after)
    ELSE <<replacement[i]>> \o Expand(replacement, i + 1, before, matched, after)

\* line 28: QWEN_SYSTEM_MESSAGE.replace('{botInstructions}', botInstructions || '')
QwenSystemMessage(botInstructions) ==
    QwenTemplateHead
    \o Expand(IF Truthy(botInstructions) THEN botInstructions ELSE <<>>, 1,
              QwenTemplateHead, <<"{botInstructions}">>, QwenTemplateTail)
    \o QwenTemplateTail

\* systemContent adding the user details whatever the context
systemContentAlwaysDetails(msgs, userSystemContext, botInstructions) ==
    QwenSystemMessage(botInstructions)
    \o <<UserDetailsHeading>>
    \o (IF Truthy(userSystemContext) THEN profileInfo(userSystemContext) ELSE <<>>)
    \o <<QwenInstructions>>

\* lines 28-136: the content of the system message
systemContent(msgs, userSystemContext, botInstructions) ==
    LET base == QwenSystemMessage(botInstructions)
    IN  IF Truthy(userSystemContext)
        THEN base \o <<UserDetailsHeading>> \o profileInfo(userSystemContext)
             \o <<QwenInstructions>>
             \o (IF hasNameQuestion(msgs)
                 THEN NameReminder(userSystemContext) ELSE <<>>)
        ELSE base

Message(role, content) == [role |-> role, content |-> content]

\* messages.filter(msg => msg.role !== 'system'), line 145
compatibleMessages(msgs) == SelectSeq(msgs, LAMBDA m : m.role # "system")

IntroduceYourself == Message("user", <<"Hello, can you introduce yourself?">>)
HelpMeWithThis == Message("user", <<"Can you help me with this?">>)

\* convertMessages with the placeholder turn left out
convertMessagesNoPlaceholder(msgs, userSystemContext, botInstructions) ==
    <<Message("system",
              systemContent(msgs, userSystemContext, botInstructions))>>
    \o compatibleMessages(msgs)

\* convertMessages, lines 26-173
convertMessages(msgs, userSystemContext, botInstructions) ==
    LET system == Message("system",
                    systemContent(msgs, userSystemContext, botInstructions))
        compatible == compatibleMessages(msgs)
    IN  IF Len(compatible) = 0
        THEN <<system, IntroduceYourself>>
        ELSE IF compatible[Len(compatible)].role # "user"
        THEN <<system>> \o compatible \o <<HelpMeWithThis>>
        ELSE <<system>> \o compatible

----------------------------------------------------------------------------
(* openai.ts: the system message of the OpenAI call *)

\* systemMessage.content, lines 120-128; {botInstructions} is part of the text
OpenAITemplate == <<"I am your helpful AI assistant. [...] Bot Instructions: {botInstructions} [...]">>

OpenAIDirectives == "\n\nIMPORTANT: You must remember these user details [...]\n\nOriginal system context provided by user:\n"

\* one line of userInfo, lines 178-182; match is match[1] or Null
OpenAIInfoLine(label, match) ==
    IF match # Null THEN <<label>> \o Trim(match) \o <<"\n">> ELSE <<>>

\* lines 170-182
openaiUserInfo(ctx) ==
    OpenAIInfoLine("- Name: ",
        KeyPattern(ctx, <<Lit.nameKey>>, Lit.is, Class.name))
    \o OpenAIInfoLine("- Location: ",
        KeyPattern(ctx, <<Lit.locationKey>>, Lit.is, Class.location))
    \o OpenAIInfoLine("- Interests: ",
        KeyPattern(ctx, <<Lit.interestsKey>>, Lit.are, Class.interests))
    \o OpenAIInfoLine("- Profession: ",
        KeyPattern(ctx, <<Lit.professionKey>>, Lit.is, Class.profession))
    \o OpenAIInfoLine("- Pets: ",
        KeyPattern(ctx, <<Lit.petsKey, Lit.petKey>>, Lit.are,
                   WordChars \cup SpaceChars \cup {",", "."}))

\* lines 165-198
enhancedSystemMessage(userSystemContext) ==
    Message("system",
        IF Truthy(userSystemContext)
        THEN OpenAITemplate \o <<UserDetailsHeading>>
             \o (IF openaiUserInfo(userSystemContext) # <<>>
                 THEN openaiUserInfo(userSystemContext)
                 ELSE userSystemContext)
             \o <<OpenAIDirectives>> \o userSystemContext
        ELSE OpenAITemplate)

\* line 201: what is sent to the OpenAI model
conversationWithSystem(msgs, userSystemContext) ==
    <<enhancedSystemMessage(userSystemContext)>> \o msgs

----------------------------------------------------------------------------
(* What the two providers can answer *)

NoError == [response |-> 0, code |-> "", apiMessage |-> "", request |-> FALSE,
            message |-> ""]

\* shapes of the error openai.chat.completions.create can reject with
OpenAIErrors ==
    { [NoError EXCEPT !.response = 429, !.code = "insufficient_quota"],
      [NoError EXCEPT !.response = 429, !.code = "rate_limit_exceeded"],
      [NoError EXCEPT !.response = 401, !.code = "invalid_api_key"],
      [NoError EXCEPT !.response = 500],
      [NoError EXCEPT !.request = TRUE],
      [NoError EXCEPT !.message = "socket hang up"] }

\* response.choices[0] of an answer without choices
NoChoiceError ==
    [NoError EXCEPT !.message =
        "Cannot read properties of undefined (reading 'message')"]

\* the error generateChatResponse throws at entry when no provider is usable
BothUnavailableError == [NoError EXCEPT !.message = BothUnavailableMessage]

OpenAITexts == {<<>>, <<"h", "i">>}

OpenAIOutcomes ==
    [kind : {"content"}, content : OpenAITexts, error : {NoError}]
    \cup [kind : {"nochoice"}, content : {<<>>}, error : {NoChoiceError}]
    \cup [kind : {"error"}, content : {<<>>}, error : OpenAIErrors]

QwenTexts ==
    { <<>>,
      <<"<", "think", ">", "a", "<", "/", "think", ">", "\n", "o", "k">> }

QwenOutcomes ==
    [kind : {"content"}, content : QwenTexts]
    \cup [kind : {"nochoice", "throw"}, content : {<<>>}]

----------------------------------------------------------------------------
(* openai.ts: generateChatResponse *)

\* ErrorMessage looking at the status alone
ErrorMessageStatusOnly(error) ==
    IF error.response = 429 THEN "Rate limit exceeded. Please try again later."
    ELSE IF error.response = 401 THEN "API key is invalid or expired."
    ELSE IF error.response # 0 THEN "OpenAI API error: Unknown error"
    ELSE IF error.request
         THEN "No response received from AI service. Please check your internet connection."
         ELSE "Error: " \o error.message

\* lines 235-256: the message of the error thrown once no fallback is left
ErrorMessage(error) ==
    IF error.response # 0
    THEN IF error.response = 429
         THEN IF error.code = "insufficient_quota"
              THEN "OpenAI API quota exceeded. Your account may need a valid payment method or has reached its limit."
              ELSE "Rate limit exceeded. Please try again later."
         ELSE IF error.response = 401
              THEN "API key is invalid or expired."
              ELSE "OpenAI API error: "
                   \o (IF error.apiMessage # "" THEN error.apiMessage
                       ELSE "Unknown error")
    ELSE IF error.request
         THEN "No response received from AI service. Please check your internet connection."
         ELSE "Error: " \o error.message

\* EntryDecision without the availability checks of lines 138-157
EntryDecisionNoCheck(cm, oKey, nKey) ==
    [model |-> "openai", next |-> "callOpenAI"]

\* EntryDecision asking for the fallback before the primary
EntryDecisionFallbackFirst(cm, oKey, nKey) ==
    IF canUseQwen(nKey)
    THEN [model |-> "qwen", next |-> "callQwen"]
    ELSE IF canUseOpenAI(oKey)
         THEN [model |-> "openai", next |-> "callOpenAI"]
         ELSE [model |-> "unavailable", next |-> "throw"]

\* EntryDecision treating 'unavailable' as final
EntryDecisionSticky(cm, oKey, nKey) ==
    IF cm = "unavailable" \/ ~(canUseOpenAI(oKey) \/ canUseQwen(nKey))
    THEN [model |-> "unavailable", next |-> "throw"]
    ELSE IF canUseOpenAI(oKey)
         THEN [model |-> "openai", next |-> "callOpenAI"]
         ELSE [model |-> "qwen", next |-> "callQwen"]

\* lines 137-163: which provider the request goes to, and the new currentModel
EntryDecision(cm, oKey, nKey) ==
    IF ~canUseOpenAI(oKey)
    THEN IF canUseQwen(nKey)
         THEN [model |-> IF cm # "qwen" THEN "qwen" ELSE cm,
               next |-> "callQwen"]
         ELSE [model |-> "unavailable", next |-> "throw"]
    ELSE [model |-> IF cm # "openai" THEN "openai" ELSE cm,
          next |-> "callOpenAI"]

\* line 217: the catch block tries the fallback only under this condition
CatchTriesFallback(cm) == cm = "openai"

\* CatchDecision without the hand-off of lines 221-225
CatchDecisionNoFallback(cm, nKey) ==
    [model |-> IF CatchTriesFallback(cm) THEN "unavailable" ELSE cm,
     next |-> "throw"]

\* lines 213-233: after an error in the try block
CatchDecision(cm, nKey) ==
    IF CatchTriesFallback(cm)
    THEN IF canUseQwen(nKey)
         THEN [model |-> "qwen", next |-> "callQwen"]
         ELSE [model |-> "unavailable", next |-> "throw"]
    ELSE [model |-> cm, next |-> "throw"]

\* line 212: response.choices[0].message.content || "I'm sorry, ..."
OpenAIText(content) == IF content = <<>> THEN OpenAIDefaultText ELSE content

----------------------------------------------------------------------------
(* fallbackChat.ts: generateFallbackResponse, given the provider's answer *)

\* generateFallbackResponse without the note of line 212
generateFallbackResponseNoNote(outcome) ==
    IF outcome.kind = "content"
    THEN CleanContent(outcome.content)
    ELSE FallbackApology

\* generateFallbackResponse treating a failed call like an empty answer
generateFallbackResponseAsEmpty(outcome) ==
    IF outcome.kind = "content"
    THEN CleanContent(outcome.content) \o FallbackNote
    ELSE QwenDefaultText \o FallbackNote

\* generateFallbackResponse returning nothing from its catch block
generateFallbackResponseNoApology(outcome) ==
    IF outcome.kind = "content"
    THEN CleanContent(outcome.content) \o FallbackNote
    ELSE <<>>

\* lines 176-222; the catch block (216-221) returns the apology
generateFallbackResponse(outcome) ==
    IF outcome.kind = "content"
    THEN CleanContent(outcome.content) \o FallbackNote
    ELSE FallbackApology

----------------------------------------------------------------------------
(* routes.ts: the status record *)

\* ModelFor without the 'unavailable' default of line 170
ModelForNeverUnavailable(isOpenAIAvailable, isQwenAvailable) ==
    IF isQwenAvailable /\ ~isOpenAIAvailable THEN "qwen" ELSE "openai"

\* ModelFor preferring the fallback
ModelForQwenFirst(isOpenAIAvailable, isQwenAvailable) ==
    IF isQwenAvailable THEN "qwen"
    ELSE IF isOpenAIAvailable THEN "openai" ELSE "unavailable"

\* updateModelStatus, lines 169-175
ModelFor(isOpenAIAvailable, isQwenAvailable) ==
    IF isOpenAIAvailable THEN "openai"
    ELSE IF isQwenAvailable THEN "qwen" ELSE "unavailable"

updateModelStatus(oKey, nKey, t) ==
    [model |-> ModelFor(canUseOpenAI(oKey), canUseQwen(nKey)),
     isOpenAIAvailable |-> canUseOpenAI(oKey),
     isQwenAvailable |-> canUseQwen(nKey),
     lastChecked |-> t]

NoModelInfo == [model |-> "none", isFallback |-> FALSE]

\* POST /api/chat, lines 452-455
ModelInfo(status) ==
    [model |-> status.model, isFallback |-> status.model # "openai"]

----------------------------------------------------------------------------
(* Requests *)

\* the ids nanoid() generates, in the order it generates them
NewIds == <<"n1">>

ConvIds == {"default", "c1", "gone"} \cup {NewIds[i] : i \in 1..Len(NewIds)}

UserTurn == [role |-> "user", content |-> <<"q">>]
AssistantTurn == [role |-> "assistant", content |-> <<"a">>]

\* a body that conversationSchema rejects
Malformed == <<[role |-> "malformed", content |-> <<>>]>>

\* request bodies: the messages array of POST /api/chat
Bodies == {<<>>, <<UserTurn>>, <<UserTurn, AssistantTurn>>, Malformed}

IdleReq ==
    [pc |-> "idle", kind |-> "none", user |-> NoUser, convId |-> "default",
     body |-> <<>>,
     status |-> 0,          \* HTTP status of the response, 0: none yet
     result |-> "none",     \* of generateChatResponse: "text" or "error"
     text |-> <<>>,         \* the text returned
     error |-> "",          \* message of the response or of the error thrown
     modelInfo |-> NoModelInfo,
     calls |-> <<>>,        \* provider calls made for this request, in order
     failed |-> {},         \* providers whose call failed
     producer |-> "none",   \* provider whose answer became the text
     modelBefore |-> "none", \* currentModel when generateChatResponse began
     modelAfter |-> "none", \* currentModel when generateChatResponse ended
     overlapped |-> FALSE,  \* another request was in flight during this one
     caught |-> NoError,    \* the error the catch block is handling
     createdAt |-> 0,       \* createdAt of the row createMessage is inserting
     inserted |-> <<>>,     \* ids of the messages this request has stored
     arg |-> <<>>,          \* the title or personality of a PATCH body
     snap |-> NoRow,        \* the conversation row the handler has read
     read |-> <<>>]         \* the rows GET .../messages answers with

InFlight(r) == req[r].pc \notin {"idle", "done"}

\* A finished request keeps its record for one step, until Finish hands the
\* answer to the caller; nothing else happens in between.
NoneDone == \A s \in Slots : req[s].pc # "done"

\* slots are interchangeable: a new request takes the lowest free one
FreeSlot(r) ==
    /\ NoneDone
    /\ req[r].pc = "idle"
    /\ \A s \in Slots : s < r => req[s].pc # "idle"

\* r starts as q; every request in flight now overlaps with it
Begin(r, q) ==
    [s \in Slots |->
        IF s = r THEN [q EXCEPT !.overlapped = \E o \in Slots \ {r} : InFlight(o)]
        ELSE IF InFlight(s) THEN [req[s] EXCEPT !.overlapped = TRUE]
        ELSE req[s]]

\* the handler answers with an error status
Respond(q, status, message) ==
    [q EXCEPT !.pc = "done", !.status = status, !.error = message]

\* generateChatResponse throws: POST /api/chat answers 500 (lines 457-462)
Throw(q, message, model) ==
    [q EXCEPT !.pc = "done", !.result = "error", !.error = message,
              !.modelAfter = model,
              !.status = IF q.kind = "http" THEN 500 ELSE 0]

\* generateChatResponse returns text
Return(q, text, provider, createdAt) ==
    [q EXCEPT !.pc = IF q.kind = "http" THEN "storeReply" ELSE "done",
              !.result = "text", !.text = text, !.producer = provider,
              !.modelAfter = currentModel,
              \* auth.ts line 442: the route calls createMessage for the reply
              !.createdAt = IF q.kind = "http" THEN createdAt ELSE 0]

\* the clock after request q has taken its step: createMessage, when the
\* step called it, has read q.createdAt
ClockAfter(q) ==
    IF q.pc \in {"storeMessage", "storeReply"} THEN q.createdAt
    ELSE lastCreatedAt

\* storage.createMessage, lines 217-227: the row gets the createdAt the
\* function read from the clock when it was called, and the next serial id
createMessage(table, content, role, conversationId, createdAt) ==
    Append(table, [id |-> nextMessageId, content |-> content, role |-> role,
                   conversationId |-> conversationId, createdAt |-> createdAt])

\* new Date() in createMessage: the clock has not moved since the last call
\* of createMessage, or it has
Dates == {lastCreatedAt, lastCreatedAt + 1}

\* lines 135-138: generateChatResponse is called for request q and waits for
\* canUseOpenAI()
Enter(q) ==
    [q EXCEPT !.modelBefore = currentModel, !.pc = "awaitCanUseOpenAI"]

\* lines 145-163 for request q, once the availability checks have answered:
\* the provider is called, or the function throws
Decided(q) ==
    LET d == EntryDecision(currentModel, openaiKey, novitaKey)
    IN  IF d.next = "throw"
        THEN Throw(q, ErrorMessage(BothUnavailableError), d.model)
        ELSE [q EXCEPT !.pc = d.next,
                       !.calls = Append(@, IF d.next = "callOpenAI"
                                           THEN "openai" ELSE "qwen")]

EnterModel ==
    \* the error thrown at entry is caught by the function's own catch block,
    \* which leaves currentModel = 'unavailable' alone
    EntryDecision(currentModel, openaiKey, novitaKey).model

----------------------------------------------------------------------------
(* Inputs of the functions checked on their own *)

\* the result of a call that has not been made yet
Pending == <<"pending">>

CtxAlice == <<"M", "y", " ", "n", "a", "m", "e", " ", "i", "s", " ", "A", "l", "i", "c", "e">>

\* free texts that contain "My name is Alice"
AliceContexts ==
    LET prefixes ==
            { <<>>,
              <<"H", "i", "!", " ">>,
              <<"U", "s", "e", "r", "n", "a", "m", "e", ":", " ", "b", "o", "b", "4",
                "2", ",", " ">> }
        suffixes ==
            { <<>>,
              <<",", " ", "I", " ", "l", "i", "k", "e", " ", "t", "e", "a">>,
              <<" ", "a", "n", "d", " ", "I", " ", "l", "i", "v", "e", " ", "i", "n",
                " ", "P", "a", "r", "i", "s">>,
              <<".", " ", "I", "'", "m", " ", "a", " ", "n", "u", "r", "s", "e">>,
              <<"\n", "L", "o", "c", "a", "t", "i", "o", "n", ":", " ", "O", "h",
                "i", "o">> }
    IN  {pre \o CtxAlice \o suf : pre \in prefixes, suf \in suffixes}

OtherContexts ==
    { <<"I", "'", "m", " ", "B", "e", "l", "l", "a">>,
      <<"B", "e", "l", "l", "a", " ", "L", "a", "w", "r", "e", "n", "c", "e",
        ",", " ", "s", "t", "u", "d", "e", "n", "t">>,
      <<"I", " ", "l", "i", "k", "e", " ", "t", "e", "a">>,
      <<"N", "a", "m", "e", ":", " ", "B", "o", "b", "\n", "P", "e", "t",
        "s", ":", " ", "R", "e", "x", " ", "(", "d", "o", "g", ")">>,
      <<"C", "a", "l", "l", " ", "m", "e", " ", "A", "l", "!">>,
      <<"n", "a", "m", "e", " ", " ", ":">>,
      <<"n", "a", "m", "e", ":", "\t", " ", "B", "o", "b", "\r", "\n", "P", "e", "t",
        "s", ":", " ", "R", "e", "x">> }

\* req.user.systemContext, or undefined for nobody logged in
Contexts == {Undefined, <<>>} \cup AliceContexts \cup OtherContexts

BotInstructions ==
    {Undefined, <<"B", "e", " ", "k", "i", "n", "d">>,
     <<"$", "$", "1", " ", "$", "&", "$", "'">>,
     <<"x", "$", "U+0060", "$", "'", "y">>}

Contents ==
    {<<"h", "i">>, <<"W", "h", "o", " ", "a", "m", " ", "I", "?">>,
     <<"W", "H", "O", " ", "A", "M", " ", "U+0130">>}
Turns == {Message(role, content) :
             role \in {"user", "assistant", "system"}, content \in Contents}

RECURSIVE SeqsUpTo(_, _)
SeqsUpTo(S, n) ==
    IF n = 0 THEN {<<>>}
    ELSE LET shorter == SeqsUpTo(S, n - 1)
         IN  shorter \cup {Append(q, x) : q \in shorter, x \in S}

Transcripts == SeqsUpTo(Turns, MaxTurns)

\* what the texts of the Qwen model are made of
RawPieces ==
    { <<"a">>, <<" ">>, <<"">>, <<"\n">>, <<"\n", "\n">>, <<"<">>, <<">">>,
      <<"<", "b", ">">>,
      <<"<", "think", ">">>, <<"<", "/", "think", ">">> }

RECURSIVE Flatten(_)
Flatten(pieces) ==
    IF pieces = <<>> THEN <<>> ELSE Head(pieces) \o Flatten(Tail(pieces))

RawTexts == {Flatten(pieces) : pieces \in SeqsUpTo(RawPieces, MaxPieces)}

\* the answers of the Qwen call: a text, no choice, or an exception
FallbackInputs ==
    [kind : {"content"}, content : RawTexts]
    \cup [kind : {"nochoice", "throw"}, content : {<<>>}]

\* shapes of the error caught at line 213: error.response.status (0: no
\* response), error.code, error.response.data.error.message, error.request,
\* error.message
ErrorShapes ==
    [response : {0, 401, 403, 429, 500},
     code : {"", "insufficient_quota", "rate_limit_exceeded"},
     apiMessage : {"", "boom"}, request : BOOLEAN,
     message : {"", "socket hang up"}]

\* values of process.env.OPENAI_API_KEY and process.env.NOVITA_API_KEY
OpenAIEnvKeys ==
    { Undefined, <<>>, <<"s", "k", "-">>,
      Key(<<"s", "k", "-">>, MinKeyLength - 1),
      Key(<<"s", "k", "-">>, MinKeyLength),
      Key(<<"s", "k", "-">>, MinKeyLength + 1),
      Key(<<"p", "k", "-">>, MinKeyLength + 1),
      Key(<<"s", "k">>, MinKeyLength + 1),
      Key(<<"S", "K", "-">>, MinKeyLength + 1) }

NovitaEnvKeys == {Undefined, <<>>, <<" ">>, <<"n", "v">>}

OpenAIComposerInputs == [messages : Transcripts, userSystemContext : Contexts]

ConvertMessagesInputs ==
    [messages : Transcripts, userSystemContext : Contexts,
     botInstructions : BotInstructions]

----------------------------------------------------------------------------
(* Actions *)

\* no function is applied on its own
NoCall == [name |-> "none"]

\* the module state after load, and the two conversations of the database
InitModule ==
    /\ openaiKey \in OpenAIKeys
    /\ novitaKey \in NovitaKeys
    /\ currentModel = "openai"
    /\ now = 0
    /\ currentModelStatus = updateModelStatus(openaiKey, novitaKey, 0)
    /\ conversations =
          [id \in ConvIds |->
              IF id = "default"
              THEN [id |-> id, title |-> <<"New Conversation">>,
                    personality |-> "general", userId |-> NoUser]
              ELSE IF id = "c1"
              THEN [id |-> id, title |-> <<"Mine">>, personality |-> "default",
                    userId |-> "u1"]
              ELSE NoRow]
    /\ req = [r \in Slots |-> IdleReq]
    /\ started = 0
    /\ nanoids = 0
    /\ statusResp = NoRow
    /\ statusAt = -1

InitServer ==
    /\ InitModule
    /\ messages = <<>>
    /\ nextMessageId = 1
    /\ lastCreatedAt = 0

Init == InitServer /\ fn = NoCall

\* POST /api/chat, lines 382-404: up to the await of storage.getConversation
ChatStart(r) ==
    /\ FreeSlot(r)
    /\ started < MaxRequests
    /\ \E body \in Bodies :
        LET status == updateModelStatus(openaiKey, novitaKey, now)
            q == [IdleReq EXCEPT !.kind = "http", !.body = body]
        IN  /\ currentModelStatus' = status
            /\ req' = Begin(r,
                  IF status.model = "unavailable"
                  THEN Respond(q, 503, "All AI models are currently unavailable. Please check your API keys.")
                  ELSE IF body = Malformed
                  THEN Respond(q, 400, "Invalid chat data format.")
                  ELSE [q EXCEPT !.pc = "getConversation"])
    /\ started' = started + 1
    /\ UNCHANGED <<openaiKey, novitaKey, currentModel, now, conversations,
                   messages, statusResp, statusAt, fn,
                   nextMessageId,
                   lastCreatedAt, nanoids>>

\* POST /api/chat, lines 404-427: storage.getConversation has answered.
\* The session user and the conversationId of the request are first used
\* here, so they are drawn here rather than in ChatStart.  The user is kept
\* on a refusal only: past this point the handler reads req.user for the
\* prompt alone, which is not part of the state.
ChatGotConversation(r) ==
    /\ NoneDone
    /\ req[r].pc = "getConversation"
    /\ \E user \in {NoUser} \cup Users, convId \in ConvIds, createdAt \in Dates :
       LET c == [req[r] EXCEPT !.convId = convId]
           q == [c EXCEPT !.user = user]
           conversation == conversations[convId]
       IN  /\ req' = [req EXCEPT ![r] =
              IF conversation = NoRow /\ q.convId # "default"
              THEN Respond(q, 404, "Conversation not found.")
              ELSE IF /\ conversation # NoRow
                      /\ conversation.userId # NoUser
                      /\ (q.user = NoUser \/ conversation.userId # q.user)
              THEN Respond(q, 403, "You don't have permission to access this conversation.")
              ELSE IF q.body = <<>>
              \* messages[-1] is undefined: reading .role throws a TypeError
              THEN Respond(q, 500, "Cannot read properties of undefined (reading 'role')")
              ELSE IF q.body[Len(q.body)].role # "user"
              THEN Respond(q, 400, "Last message must be from the user.")
              ELSE [c EXCEPT !.pc = "storeMessage", !.createdAt = createdAt]]
           /\ lastCreatedAt' = ClockAfter(req'[r])
    /\ UNCHANGED <<openaiKey, novitaKey, currentModel, currentModelStatus, now,
                   conversations, messages, started, statusResp, statusAt, fn,
                   nextMessageId, nanoids>>

\* POST /api/chat, lines 423-439: the user message is stored and
\* generateChatResponse is called
ChatStoredMessage(r) ==
    /\ NoneDone
    /\ req[r].pc = "storeMessage"
    /\ LET q == req[r]
       IN  /\ messages' = createMessage(messages, q.body[Len(q.body)].content,
                                        "user", q.convId, q.createdAt)
           /\ nextMessageId' = nextMessageId + 1
           /\ req' = [req EXCEPT ![r] =
                        Enter([q EXCEPT !.inserted = Append(@, nextMessageId),
                                        !.createdAt = 0])]
    /\ UNCHANGED <<openaiKey, novitaKey, currentModel, currentModelStatus, now,
                   conversations, started, statusResp, statusAt, fn,
                   lastCreatedAt, nanoids>>

\* generateChatResponse called on its own (it is exported), lines 135-138
GenerateStart(r) ==
    /\ FreeSlot(r)
    /\ started < MaxRequests
    /\ req' = Begin(r, Enter([IdleReq EXCEPT !.kind = "direct",
                                          !.body = <<UserTurn>>]))
    /\ started' = started + 1
    /\ UNCHANGED <<openaiKey, novitaKey, currentModel, currentModelStatus, now,
                   conversations, messages, statusResp, statusAt, fn,
                   nextMessageId, lastCreatedAt, nanoids>>

\* lines 138-163: the await of canUseOpenAI() is over.  With the primary
\* available currentModel is set and the provider called; without it the
\* function waits for canUseQwen() (line 142)
EnterGotOpenAIAvailability(r) ==
    /\ NoneDone
    /\ req[r].pc = "awaitCanUseOpenAI"
    /\ LET q == req[r]
           d == EntryDecision(currentModel, openaiKey, novitaKey)
       IN  IF d.next = "callOpenAI"
           THEN /\ req' = [req EXCEPT ![r] = Decided(q)]
                /\ currentModel' = EnterModel
           ELSE /\ req' = [req EXCEPT ![r] = [q EXCEPT !.pc = "awaitCanUseQwen"]]
                /\ UNCHANGED currentModel
    /\ UNCHANGED <<openaiKey, novitaKey, currentModelStatus, now,
                   conversations, messages, started, statusResp, statusAt, fn,
                   nextMessageId, lastCreatedAt, nanoids>>

\* lines 142-157: the await of canUseQwen() is over; currentModel is set and
\* the fallback called, or the function throws
EnterGotQwenAvailability(r) ==
    /\ NoneDone
    /\ req[r].pc = "awaitCanUseQwen"
    /\ req' = [req EXCEPT ![r] = Decided(req[r])]
    /\ currentModel' = EnterModel
    /\ UNCHANGED <<openaiKey, novitaKey, currentModelStatus, now,
                   conversations, messages, started, statusResp, statusAt, fn,
                   nextMessageId, lastCreatedAt, nanoids>>

\* openai.chat.completions.create has settled, lines 204-221 and 234-257:
\* the text is returned, or the catch block reads currentModel and either
\* goes to await canUseQwen() or throws
OpenAIReturns(r) ==
    /\ NoneDone
    /\ req[r].pc = "callOpenAI"
    /\ \E outcome \in OpenAIOutcomes :
        LET q == req[r]
            f == [q EXCEPT !.failed = @ \cup {"openai"}]
        IN  \E createdAt \in Dates :
              /\ req' = [req EXCEPT ![r] =
                    IF outcome.kind = "content"
                    THEN Return(q, OpenAIText(outcome.content), "openai",
                                createdAt)
                    ELSE IF CatchTriesFallback(currentModel)
                    THEN [f EXCEPT !.pc = "canUseQwen",
                                   !.caught = outcome.error]
                    ELSE Throw(f, ErrorMessage(outcome.error), currentModel)]
              /\ lastCreatedAt' = ClockAfter(req'[r])
    /\ UNCHANGED <<openaiKey, novitaKey, currentModel, currentModelStatus, now,
                   conversations, messages, started, statusResp, statusAt, fn,
                   nextMessageId, nanoids>>

\* lines 221-257: the await of canUseQwen() in the catch block is over; the
\* request had read currentModel = 'openai' at line 217 before it.  Another
\* request may have run its own catch block during the await.
CatchGotAvailability(r) ==
    /\ NoneDone
    /\ req[r].pc = "canUseQwen"
    /\ LET q == req[r]
           d == CatchDecision("openai", novitaKey)
       IN  /\ req' = [req EXCEPT ![r] =
                  IF d.next = "callQwen"
                  THEN [q EXCEPT !.pc = "callQwen", !.calls = Append(@, "qwen"),
                                 !.caught = NoError]
                  ELSE [Throw(q, ErrorMessage(q.caught), d.model)
                           EXCEPT !.caught = NoError]]
           /\ currentModel' = d.model
    /\ UNCHANGED <<openaiKey, novitaKey, currentModelStatus, now,
                   conversations, messages, nextMessageId, started, statusResp,
                   statusAt, fn,
                   lastCreatedAt, nanoids>>

\* huggingFaceClient.chatCompletion has settled, fallbackChat.ts lines 184-221
QwenReturns(r) ==
    /\ NoneDone
    /\ req[r].pc = "callQwen"
    /\ \E outcome \in QwenOutcomes :
        LET q == req[r]
            f == IF outcome.kind = "content" THEN q
                 ELSE [q EXCEPT !.failed = @ \cup {"qwen"}]
        IN  \E createdAt \in Dates :
              /\ req' = [req EXCEPT ![r] =
                    Return(f, generateFallbackResponse(outcome), "qwen",
                           createdAt)]
              /\ lastCreatedAt' = ClockAfter(req'[r])
    /\ UNCHANGED <<openaiKey, novitaKey, currentModel, currentModelStatus, now,
                   conversations, messages, started, statusResp, statusAt, fn,
                   nextMessageId, nanoids>>

\* POST /api/chat, lines 441-456: the reply is stored and the response sent
ChatStoredReply(r) ==
    /\ NoneDone
    /\ req[r].pc = "storeReply"
    /\ messages' = createMessage(messages, req[r].text, "assistant",
                                 req[r].convId, req[r].createdAt)
    /\ nextMessageId' = nextMessageId + 1
    /\ req' = [req EXCEPT ![r] =
                  [@ EXCEPT !.pc = "done", !.status = 200, !.createdAt = 0,
                            !.modelInfo = ModelInfo(currentModelStatus),
                            !.inserted = Append(@, nextMessageId)]]
    /\ UNCHANGED <<openaiKey, novitaKey, currentModel, currentModelStatus, now,
                   conversations, started, statusResp, statusAt, fn,
                   lastCreatedAt, nanoids>>

\* the caller has its answer; the slot is free for the next request
Finish(r) ==
    /\ req[r].pc = "done"
    /\ req' = [req EXCEPT ![r] = IdleReq]
    /\ UNCHANGED <<openaiKey, novitaKey, currentModel, currentModelStatus, now,
                   conversations, messages, started, statusResp, statusAt, fn,
                   nextMessageId,
                   lastCreatedAt, nanoids>>

\* modelStatusResponse never checking again
modelStatusResponseCached == currentModelStatus

\* modelStatusResponse checking again at every query
modelStatusResponseAlways == updateModelStatus(openaiKey, novitaKey, now)

\* GET /api/model-status, lines 468-474: the record the route answers with
modelStatusResponse ==
    IF currentModelStatus.lastChecked < now - FiveMinutes
    THEN updateModelStatus(openaiKey, novitaKey, now)
    ELSE currentModelStatus

\* GET /api/model-status, lines 466-479
ModelStatus ==
    /\ NoneDone
    /\ currentModelStatus' = modelStatusResponse
    /\ statusResp' = modelStatusResponse
    /\ statusAt' = now
    /\ UNCHANGED <<openaiKey, novitaKey, currentModel, now, conversations,
                   messages, req, started, fn,
                   nextMessageId,
                   lastCreatedAt, nanoids>>

\* time passes
Tick ==
    /\ NoneDone
    /\ now < MaxTime
    /\ now' = now + 1
    /\ UNCHANGED <<openaiKey, novitaKey, currentModel, currentModelStatus,
                   conversations, messages, req, started, statusResp, statusAt, fn,
                   nextMessageId,
                   lastCreatedAt, nanoids>>

Next ==
    \/ \E r \in Slots : ChatStart(r)
    \/ \E r \in Slots : ChatGotConversation(r)
    \/ \E r \in Slots : ChatStoredMessage(r)
    \/ \E r \in Slots : GenerateStart(r)
    \/ \E r \in Slots : EnterGotOpenAIAvailability(r)
    \/ \E r \in Slots : EnterGotQwenAvailability(r)
    \/ \E r \in Slots : OpenAIReturns(r)
    \/ \E r \in Slots : CatchGotAvailability(r)
    \/ \E r \in Slots : QwenReturns(r)
    \/ \E r \in Slots : ChatStoredReply(r)
    \/ \E r \in Slots : Finish(r)
    \/ ModelStatus

Spec == Init /\ [][Next]_vars

\* The server with its clock running and one chat request at a time: a
\* POST /api/chat arrives when no other request is in flight.
SeqChatStart(r) ==
    /\ \A s \in Slots : req[s].pc = "idle"
    /\ started < MaxClockChats
    /\ ChatStart(r)

NextClock ==
    \/ Tick
    \/ ModelStatus
    \/ \E r \in Slots : SeqChatStart(r)
    \/ \E r \in Slots : ChatGotConversation(r)
    \/ \E r \in Slots : ChatStoredMessage(r)
    \/ \E r \in Slots : EnterGotOpenAIAvailability(r)
    \/ \E r \in Slots : EnterGotQwenAvailability(r)
    \/ \E r \in Slots : OpenAIReturns(r)
    \/ \E r \in Slots : CatchGotAvailability(r)
    \/ \E r \in Slots : QwenReturns(r)
    \/ \E r \in Slots : ChatStoredReply(r)
    \/ \E r \in Slots : Finish(r)

SpecClock == Init /\ [][NextClock]_vars

\* The pure functions of the server, each applied to an input drawn at start,
\* in a server that has both keys.
InitFn ==
    /\ InitServer
    /\ canUseOpenAI(openaiKey) /\ canUseQwen(novitaKey)
    /\ \/ fn \in [name : {"convertMessages"}, in : ConvertMessagesInputs,
                  out : {Pending}, done : {FALSE}]
       \/ fn \in [name : {"generateFallbackResponse"}, in : FallbackInputs,
                  out : {Pending}, done : {FALSE}]
       \/ fn \in [name : {"conversationWithSystem"}, in : OpenAIComposerInputs,
                  out : {Pending}, done : {FALSE}]
       \/ fn \in [name : {"ErrorMessage"}, in : ErrorShapes,
                  out : {Pending}, done : {FALSE}]
       \/ fn \in [name : {"canUseOpenAI"}, in : OpenAIEnvKeys,
                  out : {Pending}, done : {FALSE}]
       \/ fn \in [name : {"canUseQwen"}, in : NovitaEnvKeys,
                  out : {Pending}, done : {FALSE}]

serverVars == <<openaiKey, novitaKey, currentModel, currentModelStatus, now,
                conversations, messages, nextMessageId, lastCreatedAt, nanoids,
                req, started, statusResp, statusAt>>

ConvertMessagesCall ==
    /\ fn.name = "convertMessages"
    /\ ~fn.done
    /\ fn' = [fn EXCEPT !.done = TRUE,
                        !.out = convertMessages(fn.in.messages,
                                                fn.in.userSystemContext,
                                                fn.in.botInstructions)]
    /\ UNCHANGED serverVars

FallbackResponseCall ==
    /\ fn.name = "generateFallbackResponse"
    /\ ~fn.done
    /\ fn' = [fn EXCEPT !.done = TRUE, !.out = generateFallbackResponse(fn.in)]
    /\ UNCHANGED serverVars

ConversationWithSystemCall ==
    /\ fn.name = "conversationWithSystem"
    /\ ~fn.done
    /\ fn' = [fn EXCEPT !.done = TRUE,
                        !.out = conversationWithSystem(fn.in.messages,
                                                       fn.in.userSystemContext)]
    /\ UNCHANGED serverVars

\* the classification at the end of the catch block of generateChatResponse
ErrorMessageCall ==
    /\ fn.name = "ErrorMessage"
    /\ ~fn.done
    /\ fn' = [fn EXCEPT !.done = TRUE, !.out = ErrorMessage(fn.in)]
    /\ UNCHANGED serverVars

CanUseOpenAICall ==
    /\ fn.name = "canUseOpenAI"
    /\ ~fn.done
    /\ fn' = [fn EXCEPT !.done = TRUE, !.out = canUseOpenAI(fn.in)]
    /\ UNCHANGED serverVars

CanUseQwenCall ==
    /\ fn.name = "canUseQwen"
    /\ ~fn.done
    /\ fn' = [fn EXCEPT !.done = TRUE, !.out = canUseQwen(novitaApiKey(fn.in))]
    /\ UNCHANGED serverVars

NextFn ==
    \/ ConvertMessagesCall
    \/ ConversationWithSystemCall
    \/ ErrorMessageCall
    \/ CanUseOpenAICall
    \/ CanUseQwenCall
    \/ FallbackResponseCall

SpecFn == InitFn /\ [][NextFn]_vars

----------------------------------------------------------------------------
(* The conversation routes *)

\* storage.getMessages, lines 209-215: the answers the query can give, the
\* rows of a conversation ordered by createdAt; rows of equal createdAt come
\* in an order the database chooses
getMessages(table, conversationId) ==
    LET rows == {table[i] : i \in {j \in 1..Len(table) :
                                  table[j].conversationId = conversationId}}
        \* the orders of a set of rows that ORDER BY created_at allows
        RECURSIVE Ordered(_)
        Ordered(S) ==
            IF S = {} THEN {<<>>}
            ELSE UNION {{<<m>> \o rest : rest \in Ordered(S \ {m})} :
                        m \in {x \in S : \A y \in S : x.createdAt <= y.createdAt}}
    IN  Ordered(rows)

\* deleteMessages emptying the table
deleteMessagesEverything(table, conversationId) == <<>>

\* storage.deleteMessages
deleteMessages(table, conversationId) ==
    SelectSeq(table, LAMBDA m : m.conversationId # conversationId)

\* the ownership check of the conversation routes: it is skipped for a
\* requester who is not signed in (lines 355-360, 497-502, 536-541, 579-584)
ownershipRefused(conversation, user) ==
    /\ conversation.userId # NoUser
    /\ user # NoUser
    /\ conversation.userId # user

\* DELETE /api/conversations/:id, lines 486-489
deleteRouteRefuses(id) == id = "default"

\* deleteConversation without its guard
deleteConversationRefusesNothing(id) == FALSE

\* DatabaseStorage.deleteConversation, lines 289-291
deleteConversationRefuses(id) == id = "default"

\* bodies of the PATCH requests.  title: empty, blank, and one to be trimmed;
\* personality: one the schema accepts, one it does not
PatchBodies ==
    [title |-> {<<>>, <<" ">>, <<" ", "T">>},
     personality |-> {"friendly", "general"}]

\* shared/schema.ts: personalityTypeSchema
personalityTypeSchema ==
    {"default", "professional", "friendly", "expert", "poetic", "concise"}

\* createConversation, lines 258-267: the row after the update
updatedRow(row, conversation) ==
    [row EXCEPT !.title = conversation.title,
                !.personality = conversation.personality,
                !.userId = IF conversation.userId # NoUser
                           THEN conversation.userId ELSE @]

\* createConversation, lines 254-256: update the existing row, else insert
createConversationBranch(table, conversation) ==
    IF table[conversation.id] # NoRow THEN "update" ELSE "insert"

\* users.system_context of the requester: u1 has written one, u2 has not
systemContextOf(user) == IF user = "u1" THEN CtxAlice ELSE Undefined

\* the rows stored by earlier exchanges in "c1" and in "default"
StoredAtStart ==
    <<[id |-> 1, content |-> <<"q">>, role |-> "user", conversationId |-> "c1",
       createdAt |-> 1],
      [id |-> 2, content |-> <<"a">>, role |-> "assistant", conversationId |-> "c1",
       createdAt |-> 2],
      [id |-> 3, content |-> <<"q">>, role |-> "user", conversationId |-> "default",
       createdAt |-> 3],
      [id |-> 4, content |-> <<"a">>, role |-> "assistant",
       conversationId |-> "default", createdAt |-> 4]>>

\* a conversation request arrives; kind "storage" is deleteConversation
\* called on its own.  DELETE, lines 482-491
DeleteStart(r) ==
    /\ FreeSlot(r)
    /\ started < MaxRequests
    /\ \E id \in ConvIds, kind \in {"delete", "storage"} :
        LET q == [IdleReq EXCEPT !.kind = kind, !.convId = id]
        IN  req' = Begin(r,
                IF kind = "storage"
                THEN (IF deleteConversationRefuses(id)
                      THEN [q EXCEPT !.pc = "done", !.result = "false"]
                      ELSE [q EXCEPT !.pc = "deleteMessages"])
                ELSE IF deleteRouteRefuses(id)
                THEN Respond(q, 400, "Cannot delete the default conversation")
                ELSE [q EXCEPT !.pc = "deleteGet"])
    /\ started' = started + 1
    /\ UNCHANGED <<openaiKey, novitaKey, currentModel, currentModelStatus, now,
                   conversations, messages, nextMessageId, statusResp,
                   statusAt, fn,
                   lastCreatedAt, nanoids>>

\* DELETE, lines 491-506: storage.getConversation has answered
DeleteGotConversation(r) ==
    /\ NoneDone
    /\ req[r].pc = "deleteGet"
    /\ \E user \in {NoUser} \cup Users :
       LET q == [req[r] EXCEPT !.user = user]
           conversation == conversations[q.convId]
       IN  req' = [req EXCEPT ![r] =
              IF conversation = NoRow
              THEN Respond(q, 404, "Conversation not found")
              ELSE IF ownershipRefused(conversation, user)
              THEN Respond(q, 403, "You don't have permission to delete this conversation.")
              ELSE IF deleteConversationRefuses(q.convId)
              THEN Respond(q, 500, "Failed to delete conversation")
              ELSE [q EXCEPT !.pc = "deleteMessages", !.snap = conversation]]
    /\ UNCHANGED <<openaiKey, novitaKey, currentModel, currentModelStatus, now,
                   conversations, messages, nextMessageId, started, statusResp,
                   statusAt, fn,
                   lastCreatedAt, nanoids>>

\* deleteConversation, lines 293-296: deleteMessages has run
DeleteMessagesDone(r) ==
    /\ NoneDone
    /\ req[r].pc = "deleteMessages"
    /\ messages' = deleteMessages(messages, req[r].convId)
    /\ req' = [req EXCEPT ![r] = [@ EXCEPT !.pc = "deleteRow"]]
    /\ UNCHANGED <<openaiKey, novitaKey, currentModel, currentModelStatus, now,
                   conversations, nextMessageId, started, statusResp,
                   statusAt, fn,
                   lastCreatedAt, nanoids>>

\* deleteConversation, lines 298-303, and DELETE, lines 508-512: the row is
\* deleted, and the answer tells whether there was one
DeleteRowDone(r) ==
    /\ NoneDone
    /\ req[r].pc = "deleteRow"
    /\ LET q == req[r]
           deleted == conversations[q.convId] # NoRow
       IN  /\ conversations' = [conversations EXCEPT ![q.convId] = NoRow]
           /\ req' = [req EXCEPT ![r] =
                  IF q.kind = "storage"
                  THEN [q EXCEPT !.pc = "done",
                                 !.result = IF deleted THEN "true" ELSE "false"]
                  ELSE IF deleted THEN Respond(q, 200, "")
                  ELSE Respond(q, 500, "Failed to delete conversation")]
    /\ UNCHANGED <<openaiKey, novitaKey, currentModel, currentModelStatus, now,
                   messages, nextMessageId, started, statusResp, statusAt, fn,
                   lastCreatedAt, nanoids>>

\* PATCH /api/conversations/:id/title, lines 520-531
TitleStart(r) ==
    /\ FreeSlot(r)
    /\ started < MaxRequests
    /\ \E title \in PatchBodies.title :
        LET q == [IdleReq EXCEPT !.kind = "title", !.arg = title]
        IN  req' = Begin(r,
                \* !title || title.trim().length === 0
                IF title = <<>> \/ Trim(title) = <<>>
                THEN Respond(q, 400, "Valid title is required")
                ELSE [q EXCEPT !.pc = "titleGet"])
    /\ started' = started + 1
    /\ UNCHANGED <<openaiKey, novitaKey, currentModel, currentModelStatus, now,
                   conversations, messages, nextMessageId, statusResp,
                   statusAt, fn,
                   lastCreatedAt, nanoids>>

\* PATCH title, lines 531-548, and createConversation, lines 254-255:
\* storage.getConversation has answered the route
TitleGotConversation(r) ==
    /\ NoneDone
    /\ req[r].pc = "titleGet"
    /\ \E user \in {NoUser} \cup Users, id \in ConvIds :
       LET q == [req[r] EXCEPT !.user = user, !.convId = id]
           conversation == conversations[id]
       IN  req' = [req EXCEPT ![r] =
              IF conversation = NoRow
              THEN Respond(q, 404, "Conversation not found")
              ELSE IF ownershipRefused(conversation, user)
              THEN Respond(q, 403, "You don't have permission to update this conversation.")
              ELSE [q EXCEPT !.pc = "createExisting",
                             !.snap = [conversation EXCEPT !.title = Trim(q.arg)]]]
    /\ UNCHANGED <<openaiKey, novitaKey, currentModel, currentModelStatus, now,
                   conversations, messages, nextMessageId, started, statusResp,
                   statusAt, fn,
                   lastCreatedAt, nanoids>>

\* createConversation, lines 255-257: its own getConversation has answered
CreateConversationChecked(r) ==
    /\ NoneDone
    /\ req[r].pc = "createExisting"
    /\ req' = [req EXCEPT ![r] =
          [@ EXCEPT !.pc =
              IF createConversationBranch(conversations, req[r].snap) = "update"
              THEN "createUpdate" ELSE "createInsert"]]
    /\ UNCHANGED <<openaiKey, novitaKey, currentModel, currentModelStatus, now,
                   conversations, messages, nextMessageId, started, statusResp,
                   statusAt, fn,
                   lastCreatedAt, nanoids>>

\* createConversation, lines 258-269: the update has run; it changes nothing
\* when the row is gone.  The route answers with what createConversation
\* returns: res.json (PATCH title, line 551) or res.status(201) (POST, 273)
CreateConversationUpdated(r) ==
    /\ NoneDone
    /\ req[r].pc = "createUpdate"
    /\ LET q == req[r]
           row == conversations[q.convId]
       IN  /\ conversations' =
                 IF row = NoRow THEN conversations
                 ELSE [conversations EXCEPT ![q.convId] = updatedRow(row, q.snap)]
           /\ req' = [req EXCEPT ![r] = Respond(q, IF q.kind = "create" THEN 201 ELSE 200, "")]
    /\ UNCHANGED <<openaiKey, novitaKey, currentModel, currentModelStatus, now,
                   messages, nextMessageId, started, statusResp, statusAt, fn,
                   lastCreatedAt, nanoids>>

\* createConversation, lines 273-284, with PATCH title, lines 550-554, or
\* POST /api/conversations, lines 272-277: the insert has run; the primary
\* key refuses a second row of the same id
CreateConversationInserted(r) ==
    /\ NoneDone
    /\ req[r].pc = "createInsert"
    /\ LET q == req[r]
       IN  IF conversations[q.convId] # NoRow
           THEN /\ req' = [req EXCEPT ![r] =
                       Respond(q, 500,
                               IF q.kind = "create"
                               THEN "Failed to create conversation."
                               ELSE "Failed to update conversation title")]
                /\ UNCHANGED conversations
           ELSE /\ conversations' = [conversations EXCEPT ![q.convId] = q.snap]
                /\ req' = [req EXCEPT ![r] = Respond(q, IF q.kind = "create" THEN 201 ELSE 200, "")]
    /\ UNCHANGED <<openaiKey, novitaKey, currentModel, currentModelStatus, now,
                   messages, nextMessageId, started, statusResp, statusAt, fn,
                   lastCreatedAt, nanoids>>

\* what the title model answers: content null, blank or a title with spaces
\* around it, no choice at all, or a rejected call
TitleOutcomes ==
    [kind : {"content"}, content : {Null, <<" ">>, <<" ", "T">>}]
    \cup [kind : {"nochoice", "error"}, content : {Null}]

\* response.choices[0].message.content?.trim() || fallback, inside the try
\* whose catch gives the fallback too (lines 247-251 and 314-324)
TitleFrom(outcome, fallback) ==
    IF outcome.kind = "content" /\ outcome.content # Null
       /\ Trim(outcome.content) # <<>>
    THEN Trim(outcome.content)
    ELSE fallback

\* a req.body.title that is not a string
NotAString == <<"42">>

\* bodies of POST /api/conversations
CreateBodies ==
    [title : {Undefined, <<"New Conversation">>, <<"O", "t", "h", "e", "r">>,
              NotAString},
     \* "": req.body.personality is not there
     personality : {"", "friendly"}]

\* conversationData, lines 255-264
conversationData(id, title, personality, user) ==
    [id |-> id, title |-> title,
     personality |-> IF personality = "" THEN "general" ELSE personality,
     userId |-> user]

\* lines 266-272: insertConversationSchema.safeParse, then createConversation
\* is called
ParseAndCreate(q, title) ==
    IF title = NotAString
    THEN Respond(q, 400, "Invalid conversation data.")
    ELSE [q EXCEPT !.pc = "createExisting", !.snap = [@ EXCEPT !.title = title]]

\* POST /api/conversations, lines 222-229 (and on to 272 with a title)
ConversationCreateStart(r) ==
    /\ FreeSlot(r)
    /\ started < MaxRequests
    /\ nanoids < Len(NewIds)
    /\ \E body \in CreateBodies, user \in {NoUser} \cup Users :
        LET id == NewIds[nanoids + 1]
            q == [IdleReq EXCEPT !.kind = "create", !.user = user,
                                 !.convId = id,
                                 !.snap = conversationData(id, <<>>,
                                              body.personality, user)]
        IN  req' = Begin(r,
                \* !title || title === "New Conversation"
                IF ~Truthy(body.title) \/ body.title = <<"New Conversation">>
                THEN [q EXCEPT !.pc = "createTitle"]
                ELSE ParseAndCreate(q, body.title))
    /\ started' = started + 1
    /\ nanoids' = nanoids + 1
    /\ UNCHANGED <<openaiKey, novitaKey, currentModel, currentModelStatus, now,
                   conversations, messages, nextMessageId, statusResp,
                   statusAt, fn, lastCreatedAt>>

\* POST /api/conversations, lines 231-272: the title model has answered
ConversationCreateGotTitle(r) ==
    /\ NoneDone
    /\ req[r].pc = "createTitle"
    /\ \E outcome \in TitleOutcomes :
          req' = [req EXCEPT ![r] =
              ParseAndCreate(req[r], TitleFrom(outcome, <<"New Conversation">>))]
    /\ UNCHANGED <<openaiKey, novitaKey, currentModel, currentModelStatus, now,
                   conversations, messages, nextMessageId, started, statusResp,
                   statusAt, fn, lastCreatedAt, nanoids>>

\* POST /api/conversations/:id/generate-title, lines 281-286
GenerateTitleStart(r) ==
    /\ FreeSlot(r)
    /\ started < MaxRequests
    /\ \E id \in ConvIds :
          req' = Begin(r, [IdleReq EXCEPT !.kind = "generate", !.convId = id,
                                          !.pc = "generateMessages"])
    /\ started' = started + 1
    /\ UNCHANGED <<openaiKey, novitaKey, currentModel, currentModelStatus, now,
                   conversations, messages, nextMessageId, statusResp,
                   statusAt, fn, lastCreatedAt, nanoids>>

\* generate-title, lines 286-300: storage.getMessages has answered
GenerateTitleGotMessages(r) ==
    /\ NoneDone
    /\ req[r].pc = "generateMessages"
    /\ \E rows \in getMessages(messages, req[r].convId) :
          req' = [req EXCEPT ![r] =
              IF Len(rows) < 2
              THEN Respond(@, 400, "Need at least one exchange to generate a title")
              ELSE [@ EXCEPT !.pc = "generateTitle"]]
    /\ UNCHANGED <<openaiKey, novitaKey, currentModel, currentModelStatus, now,
                   conversations, messages, nextMessageId, started, statusResp,
                   statusAt, fn, lastCreatedAt, nanoids>>

\* generate-title, lines 300-328: the title model has answered
GenerateTitleGotTitle(r) ==
    /\ NoneDone
    /\ req[r].pc = "generateTitle"
    /\ \E outcome \in TitleOutcomes :
          req' = [req EXCEPT ![r] =
              [@ EXCEPT !.pc = "generateUpdate",
                        \* `Chat ${new Date().toLocaleDateString()}`
                        !.arg = TitleFrom(outcome,
                                    <<"Chat ", "toLocaleDateString()">>)]]
    /\ UNCHANGED <<openaiKey, novitaKey, currentModel, currentModelStatus, now,
                   conversations, messages, nextMessageId, started, statusResp,
                   statusAt, fn, lastCreatedAt, nanoids>>

\* generate-title, lines 328-334, and updateConversationTitle, lines 320-328:
\* the update has run; it returns no row when the conversation has none
GenerateTitleUpdated(r) ==
    /\ NoneDone
    /\ req[r].pc = "generateUpdate"
    /\ LET q == req[r]
           row == conversations[q.convId]
       IN  IF row = NoRow
           THEN /\ req' = [req EXCEPT ![r] =
                              Respond(q, 404, "Conversation not found")]
                /\ UNCHANGED conversations
           ELSE /\ conversations' =
                      [conversations EXCEPT ![q.convId] = [row EXCEPT !.title = q.arg]]
                /\ req' = [req EXCEPT ![r] = Respond(q, 200, "")]
    /\ UNCHANGED <<openaiKey, novitaKey, currentModel, currentModelStatus, now,
                   messages, nextMessageId, started, statusResp, statusAt, fn,
                   lastCreatedAt, nanoids>>

\* PATCH /api/conversations/:id/personality, lines 558-571
PersonalityStart(r) ==
    /\ FreeSlot(r)
    /\ started < MaxRequests
    /\ \E personality \in PatchBodies.personality :
        LET q == [IdleReq EXCEPT !.kind = "personality", !.arg = personality]
        IN  req' = Begin(r,
                IF personality \notin personalityTypeSchema
                THEN Respond(q, 400, "Invalid personality type")
                ELSE [q EXCEPT !.pc = "personalityGet"])
    /\ started' = started + 1
    /\ UNCHANGED <<openaiKey, novitaKey, currentModel, currentModelStatus, now,
                   conversations, messages, nextMessageId, statusResp,
                   statusAt, fn,
                   lastCreatedAt, nanoids>>

\* PATCH personality, lines 573-588: storage.getConversation has answered
PersonalityGotConversation(r) ==
    /\ NoneDone
    /\ req[r].pc = "personalityGet"
    /\ \E user \in {NoUser} \cup Users, id \in ConvIds :
       LET q == [req[r] EXCEPT !.user = user, !.convId = id]
           conversation == conversations[id]
       IN  req' = [req EXCEPT ![r] =
              IF conversation = NoRow
              THEN Respond(q, 404, "Conversation not found")
              ELSE IF ownershipRefused(conversation, user)
              THEN Respond(q, 403, "You don't have permission to update this conversation.")
              ELSE [q EXCEPT !.pc = "personalityUpdate", !.snap = conversation]]
    /\ UNCHANGED <<openaiKey, novitaKey, currentModel, currentModelStatus, now,
                   conversations, messages, nextMessageId, started, statusResp,
                   statusAt, fn,
                   lastCreatedAt, nanoids>>

\* updateConversationPersonality, lines 310-318, and PATCH personality,
\* lines 590-599
PersonalityUpdated(r) ==
    /\ NoneDone
    /\ req[r].pc = "personalityUpdate"
    /\ LET q == req[r]
           row == conversations[q.convId]
       IN  /\ conversations' =
                 IF row = NoRow THEN conversations
                 ELSE [conversations EXCEPT ![q.convId] =
                          [row EXCEPT !.personality = q.arg]]
           /\ req' = [req EXCEPT ![r] = Respond(q, 200, "")]
    /\ UNCHANGED <<openaiKey, novitaKey, currentModel, currentModelStatus, now,
                   messages, nextMessageId, started, statusResp, statusAt, fn,
                   lastCreatedAt, nanoids>>

\* GET /api/conversations/:id/messages, lines 344-347
ReadStart(r) ==
    /\ FreeSlot(r)
    /\ started < MaxRequests
    /\ req' = Begin(r, [IdleReq EXCEPT !.kind = "read", !.pc = "readGet"])
    /\ started' = started + 1
    /\ UNCHANGED <<openaiKey, novitaKey, currentModel, currentModelStatus, now,
                   conversations, messages, nextMessageId, statusResp,
                   statusAt, fn,
                   lastCreatedAt, nanoids>>

\* GET messages, lines 347-362: storage.getConversation has answered
ReadGotConversation(r) ==
    /\ NoneDone
    /\ req[r].pc = "readGet"
    /\ \E user \in {NoUser} \cup Users, id \in ConvIds :
       \* arg: req.user.systemContext
       LET q == [req[r] EXCEPT !.user = user, !.convId = id,
                               !.arg = systemContextOf(user)]
           conversation == conversations[id]
       IN  req' = [req EXCEPT ![r] =
              IF conversation = NoRow
              THEN Respond(q, 404, "Conversation not found.")
              ELSE IF ownershipRefused(conversation, user)
              THEN Respond(q, 403, "You don't have permission to access this conversation.")
              ELSE [q EXCEPT !.pc = "readMessages", !.snap = conversation]]
    /\ UNCHANGED <<openaiKey, novitaKey, currentModel, currentModelStatus, now,
                   conversations, messages, nextMessageId, started, statusResp,
                   statusAt, fn,
                   lastCreatedAt, nanoids>>

\* GET messages, lines 362-375: storage.getMessages has answered
ReadGotMessages(r) ==
    /\ NoneDone
    /\ req[r].pc = "readMessages"
    /\ \E rows \in getMessages(messages, req[r].convId), createdAt \in Dates :
       LET q == req[r]
       IN  req' = [req EXCEPT ![r] =
              [Respond(q, 200, "") EXCEPT !.read =
                  \* messages.unshift(userContext)
                  IF q.user # NoUser
                  THEN <<[content |-> IF Truthy(q.arg) THEN q.arg
                                      ELSE <<"Chat with ", q.user>>,
                          role |-> "system", conversationId |-> q.convId,
                          createdAt |-> createdAt]>>
                       \o rows
                  ELSE rows]]
    /\ UNCHANGED <<openaiKey, novitaKey, currentModel, currentModelStatus, now,
                   conversations, messages, nextMessageId, started, statusResp,
                   statusAt, fn,
                   lastCreatedAt, nanoids>>

\* The server with its conversation routes: chat requests interleaved with
\* reads, deletes and updates of conversations, in a server that has the
\* fallback's key, with or without the primary's, and a database holding two
\* earlier exchanges.
InitApi ==
    /\ InitModule
    /\ canUseQwen(novitaKey)
    /\ messages = StoredAtStart
    /\ nextMessageId = Len(StoredAtStart) + 1
    /\ lastCreatedAt = StoredAtStart[Len(StoredAtStart)].createdAt
    /\ fn = NoCall

NextApi ==
    \/ \E r \in Slots : ChatStart(r)
    \/ \E r \in Slots : ChatGotConversation(r)
    \/ \E r \in Slots : ChatStoredMessage(r)
    \/ \E r \in Slots : EnterGotOpenAIAvailability(r)
    \/ \E r \in Slots : EnterGotQwenAvailability(r)
    \/ \E r \in Slots : OpenAIReturns(r)
    \/ \E r \in Slots : CatchGotAvailability(r)
    \/ \E r \in Slots : QwenReturns(r)
    \/ \E r \in Slots : ChatStoredReply(r)
    \/ \E r \in Slots : DeleteStart(r)
    \/ \E r \in Slots : DeleteGotConversation(r)
    \/ \E r \in Slots : DeleteMessagesDone(r)
    \/ \E r \in Slots : DeleteRowDone(r)
    \/ \E r \in Slots : TitleStart(r)
    \/ \E r \in Slots : TitleGotConversation(r)
    \/ \E r \in Slots : CreateConversationChecked(r)
    \/ \E r \in Slots : CreateConversationUpdated(r)
    \/ \E r \in Slots : CreateConversationInserted(r)
    \/ \E r \in Slots : ConversationCreateStart(r)
    \/ \E r \in Slots : ConversationCreateGotTitle(r)
    \/ \E r \in Slots : GenerateTitleStart(r)
    \/ \E r \in Slots : GenerateTitleGotMessages(r)
    \/ \E r \in Slots : GenerateTitleGotTitle(r)
    \/ \E r \in Slots : GenerateTitleUpdated(r)
    \/ \E r \in Slots : PersonalityStart(r)
    \/ \E r \in Slots : PersonalityGotConversation(r)
    \/ \E r \in Slots : PersonalityUpdated(r)
    \/ \E r \in Slots : ReadStart(r)
    \/ \E r \in Slots : ReadGotConversation(r)
    \/ \E r \in Slots : ReadGotMessages(r)
    \/ \E r \in Slots : Finish(r)

SpecApi == InitApi /\ [][NextApi]_vars

----------------------------------------------------------------------------
(* generateImage: the prediction and its status polls *)

\* line 65
maxAttempts == 30

\* JSON.stringify of the body of a response that is not OK
ErrorData == "{\"detail\":\"x\"}"

\* the URL of a generated image
ImageUrl == <<"https://replicate.delivery/out.png">>

\* what a status poll can bring: a response that is not OK, or a prediction
\* that is still running, has failed, or has succeeded
PollOutcomes ==
    {[ok |-> FALSE, status |-> "none", error |-> Undefined,
      output |-> [type |-> "none"]]}
    \cup [ok : {TRUE}, status : {"processing"}, error : {Undefined},
          output : {[type |-> "none"]}]
    \* status.error of a failed prediction: absent, or a text
    \cup [ok : {TRUE}, status : {"failed"},
          error : {Undefined, <<"NSFW content detected">>},
          output : {[type |-> "none"]}]
    \cup [ok : {TRUE}, status : {"succeeded"}, error : {Undefined},
          \* status.output: absent, a string, or an array
          output : {[type |-> "none"]}
                   \cup [type : {"string"}, value : {<<>>, ImageUrl}]
                   \cup [type : {"array"},
                         items : {<<>>, <<ImageUrl>>, <<<<>>>>}]]

\* lines 86-92: imageUrl after a status response
imageUrlAfter(imageUrl, status) ==
    IF status.status # "succeeded" THEN imageUrl
    ELSE IF status.output.type = "string" /\ Truthy(status.output.value)
    THEN status.output.value
    ELSE IF status.output.type = "array" /\ Len(status.output.items) > 0
    THEN status.output.items[1]
    ELSE imageUrl

\* the loop condition without its bound
keepsPollingUnbounded(imageUrl, attempts) == ~Truthy(imageUrl)

\* line 67: while (!imageUrl && attempts < maxAttempts)
keepsPolling(imageUrl, attempts) ==
    ~Truthy(imageUrl) /\ attempts < maxAttempts

\* lines 103-106: the catch block rethrows
ImageThrow(f, message) ==
    [f EXCEPT !.pc = "done", !.done = TRUE,
              !.out = [kind |-> "throw",
                       message |-> <<"Failed to generate image: ">> \o message]]

\* lines 22-53: up to the await of the fetch that creates the prediction
GenerateImageStart ==
    /\ fn.name = "generateImage"
    /\ fn.pc = "start"
    /\ fn' = IF ~Truthy(fn.in)
             THEN ImageThrow(fn, <<"REPLICATE_API_KEY is not set in environment variables">>)
             ELSE [fn EXCEPT !.pc = "create"]
    /\ UNCHANGED serverVars

\* lines 55-67: the answer to the create request, up to the first wait
GenerateImageCreated ==
    /\ fn.name = "generateImage"
    /\ fn.pc = "create"
    /\ \E ok \in BOOLEAN :
          fn' = IF ~ok
                THEN ImageThrow(fn, <<"Replicate API error: ", ErrorData>>)
                ELSE IF keepsPolling(fn.imageUrl, fn.attempts)
                THEN [fn EXCEPT !.pc = "poll"]
                ELSE ImageThrow(fn, <<"Timed out waiting for image generation">>)
    /\ UNCHANGED serverVars

\* lines 68-102: one status poll has been answered; the loop goes round,
\* or the function returns or throws
GenerateImagePolled ==
    /\ fn.name = "generateImage"
    /\ fn.pc = "poll"
    /\ fn.polls <= maxAttempts
    /\ \E status \in PollOutcomes :
        LET f == [fn EXCEPT !.polls = @ + 1, !.last = status]
            imageUrl == imageUrlAfter(fn.imageUrl, status)
            attempts == fn.attempts + 1
            g == [f EXCEPT !.imageUrl = imageUrl, !.attempts = attempts]
        IN  fn' = IF ~status.ok
                  THEN ImageThrow(f, <<"Replicate API status error: ", ErrorData>>)
                  ELSE IF status.status = "failed"
                  THEN ImageThrow(f, <<"Image generation failed: ">>
                                     \o (IF Truthy(status.error) THEN status.error
                                         ELSE <<"Unknown error">>))
                  ELSE IF keepsPolling(imageUrl, attempts)
                  THEN g
                  ELSE IF ~Truthy(imageUrl)
                  THEN ImageThrow(g, <<"Timed out waiting for image generation">>)
                  ELSE [g EXCEPT !.pc = "done", !.done = TRUE,
                                 !.out = [kind |-> "return", value |-> imageUrl]]
    /\ UNCHANGED serverVars

\* generateImage called once, in a server that has both chat keys; every
\* fetch is answered and every timer fires
InitImage ==
    /\ InitServer
    /\ canUseOpenAI(openaiKey) /\ canUseQwen(novitaKey)
    /\ fn \in [name : {"generateImage"}, in : {Undefined, <<"r", "8">>},
               pc : {"start"}, attempts : {0}, polls : {0}, imageUrl : {Null},
               last : {[ok |-> TRUE, status |-> "none", error |-> Undefined,
                        output |-> [type |-> "none"]]},
               out : {[kind |-> "none"]}, done : {FALSE}]

NextImage ==
    \/ GenerateImageStart
    \/ GenerateImageCreated
    \/ GenerateImagePolled

SpecImage == InitImage /\ [][NextImage]_vars /\ WF_vars(NextImage)

TypeOK ==
    /\ currentModel \in {"openai", "qwen", "unavailable"}
    /\ currentModelStatus.model \in {"openai", "qwen", "unavailable"}
    /\ now \in 0..MaxTime
    /\ started \in 0..MaxRequests
    /\ statusAt \in -1..MaxTime
    /\ nanoids \in 0..Len(NewIds)
    /\ \A r \in Slots : req[r].pc \in
          {"idle", "getConversation", "storeMessage", "awaitCanUseOpenAI",
           "awaitCanUseQwen", "callOpenAI", "canUseQwen",
           "callQwen",
           "storeReply", "done", "deleteGet", "deleteMessages", "deleteRow",
           "titleGet", "createExisting", "createUpdate", "createInsert",
           "createTitle", "generateMessages", "generateTitle", "generateUpdate",
           "personalityGet", "personalityUpdate", "readGet", "readMessages"}

----------------------------------------------------------------------------
(* Properties *)

EndsWith(s, suffix) ==
    Len(s) >= Len(suffix)
    /\ SubSeq(s, Len(s) - Len(suffix) + 1, Len(s)) = suffix

PrimaryAvailable == canUseOpenAI(openaiKey)
SecondaryAvailable == canUseQwen(novitaKey)

\* generateChatResponse has run for the request in slot r
Entered(r) == req[r].calls # <<>> \/ req[r].result # "none"

\* generateChatResponse has ended for the request in slot r
Ended(r) == req[r].result # "none"

\* every text generateFallbackResponse can return from a provider answer
FallbackTexts == {generateFallbackResponse(o) : o \in QwenOutcomes}

\* C1: with the primary unavailable and the secondary available, a request
\* handled by generateChatResponse makes no primary call, calls the secondary
\* exactly once, gets the secondary client's text back, and currentModel is
\* 'qwen'.
C1_PrimaryUnavailableGoesToFallback ==
    (~PrimaryAvailable /\ SecondaryAvailable) =>
        \A r \in Slots : Entered(r) =>
            /\ req[r].calls = <<"qwen">>
            /\ currentModel = "qwen"
            /\ Ended(r) =>
                  /\ req[r].result = "text"
                  /\ req[r].producer = "qwen"
                  /\ req[r].text \in FallbackTexts
                  /\ req[r].modelAfter = "qwen"

C1_Witness ==
    /\ ~PrimaryAvailable /\ SecondaryAvailable
    /\ \E r \in Slots :
          /\ req[r].pc = "done" /\ req[r].kind = "http" /\ req[r].status = 200
          /\ req[r].calls = <<"qwen">>
          /\ EndsWith(req[r].text, FallbackNote)

\* C2: with both providers unavailable a chat request ends in a hard error
\* (generateChatResponse throws, POST /api/chat answers 503), no provider is
\* called, no message is stored, and the state is 'unavailable': currentModel
\* after generateChatResponse, the status record after POST /api/chat.
C2_BothUnavailableFailsFast ==
    (~PrimaryAvailable /\ ~SecondaryAvailable) =>
        /\ messages = <<>>
        /\ \A r \in Slots :
              /\ req[r].calls = <<>>
              \* in flight, it is waiting for an availability check
              /\ req[r].pc \in {"idle", "awaitCanUseOpenAI", "awaitCanUseQwen",
                                "done"}
              /\ (req[r].pc = "done" /\ req[r].kind = "direct") =>
                    /\ req[r].result = "error"
                    /\ req[r].error = "Error: " \o BothUnavailableMessage
                    /\ currentModel = "unavailable"
              /\ (req[r].pc = "done" /\ req[r].kind = "http") =>
                    /\ req[r].status = 503
                    /\ req[r].result = "none"
                    /\ currentModelStatus.model = "unavailable"

C2_Witness ==
    /\ ~PrimaryAvailable /\ ~SecondaryAvailable
    /\ currentModel = "unavailable"
    /\ \E r \in Slots :
          req[r].pc = "done" /\ req[r].kind = "http" /\ req[r].status = 503

\* C3: a request that ran with no other request in flight, whose primary call
\* failed while the secondary was available and answered, returns the
\* secondary's cleaned text ending with the fallback note, surfaces no error,
\* and leaves currentModel = 'qwen'.
C3_PrimaryFailureFallsBack ==
    \A r \in Slots :
        ( /\ Ended(r)
          /\ ~req[r].overlapped
          /\ "openai" \in req[r].failed
          /\ SecondaryAvailable
          /\ "qwen" \notin req[r].failed ) =>
            /\ req[r].result = "text"
            /\ req[r].error = ""
            /\ req[r].calls = <<"openai", "qwen">>
            /\ req[r].producer = "qwen"
            /\ req[r].text \in {CleanContent(c) \o FallbackNote : c \in QwenTexts}
            /\ EndsWith(req[r].text, FallbackNote)
            /\ req[r].modelAfter = "qwen"
            /\ (req[r].pc = "done" /\ req[r].kind = "http") => req[r].status = 200

C3_Witness ==
    \E r \in Slots :
        /\ req[r].pc = "done" /\ ~req[r].overlapped
        /\ "openai" \in req[r].failed /\ "qwen" \notin req[r].failed
        /\ req[r].producer = "qwen"
        /\ req[r].text = <<"o", "k">> \o FallbackNote

\* C4: concurrent requests are independent; in particular a request whose
\* primary call failed while the secondary is available has called the
\* secondary and returned text, whatever other requests did meanwhile.
C4_ConcurrentRequestsIndependent ==
    \A r \in Slots :
        (Ended(r) /\ "openai" \in req[r].failed /\ SecondaryAvailable) =>
            "qwen" \in {req[r].calls[i] : i \in 1..Len(req[r].calls)}
            /\ req[r].result = "text"

\* C5 as stated: primary and secondary call both failed: the state becomes
\* 'unavailable' and an error is surfaced.
C5_BothCallsFailSurfacesError ==
    \A r \in Slots :
        (Ended(r) /\ req[r].failed = {"openai", "qwen"}) =>
            req[r].modelAfter = "unavailable" /\ req[r].result = "error"

\* C5 amended: primary and secondary call both failed: the caller gets the
\* fixed apology as normal text, no error is surfaced, and the state is never
\* 'unavailable': it stays 'qwen' as set at the hand-off (unless a concurrent
\* request has written it since).
C5_BothCallsFailReturnsApology ==
    \A r \in Slots :
        (Ended(r) /\ req[r].failed = {"openai", "qwen"}) =>
            /\ req[r].result = "text"
            /\ req[r].text = FallbackApology
            /\ req[r].error = ""
            /\ req[r].modelAfter # "unavailable"
            /\ ~req[r].overlapped => req[r].modelAfter = "qwen"

C5_Witness ==
    \E r \in Slots :
        /\ req[r].pc = "done" /\ req[r].failed = {"openai", "qwen"}
        /\ ~req[r].overlapped
        /\ req[r].modelAfter = "qwen"

\* C6: whenever the secondary provider call throws or returns no valid
\* choice, generateFallbackResponse returns the fixed apology as a normal
\* value, and the chat request completes with that text.
C6_FallbackNeverThrows ==
    \A r \in Slots :
        "qwen" \in req[r].failed =>
            /\ req[r].pc \in {"storeReply", "done"}
            /\ req[r].result = "text"
            /\ req[r].text = FallbackApology
            /\ req[r].error = ""
            /\ (req[r].pc = "done" /\ req[r].kind = "http") => req[r].status = 200

C6_Witness ==
    \E r \in Slots :
        /\ req[r].pc = "done" /\ req[r].kind = "http" /\ req[r].status = 200
        /\ req[r].failed = {"qwen"}
        /\ \E i \in 1..Len(messages) :
              messages[i].role = "assistant" /\ messages[i].content = FallbackApology

\* C7 as stated: generateChatResponse ends in an error only when both
\* providers are unavailable at entry.
C7_HardErrorOnlyWhenBothUnavailable ==
    \A r \in Slots :
        req[r].result = "error" => (~PrimaryAvailable /\ ~SecondaryAvailable)

\* C7 amended: generateChatResponse ends in an error only when the secondary
\* was not called: both providers unavailable at entry, or the primary call
\* failed and the secondary is unavailable or a concurrent request had changed
\* currentModel (the defect of C4).  Whenever the secondary is called, and
\* whenever it is available and no other request is in flight, the caller
\* receives text.
C7_HardErrorOnlyWithoutFallback ==
    \A r \in Slots : Ended(r) =>
        /\ req[r].result = "error" =>
              \/ ~PrimaryAvailable /\ ~SecondaryAvailable /\ req[r].calls = <<>>
              \/ /\ req[r].calls = <<"openai">>
                 /\ "openai" \in req[r].failed
                 /\ (~SecondaryAvailable \/ req[r].overlapped)
        /\ req[r].calls \in {<<"qwen">>, <<"openai", "qwen">>} =>
              req[r].result = "text"
        /\ (SecondaryAvailable /\ ~req[r].overlapped) => req[r].result = "text"

C7_Witness ==
    \E r \in Slots :
        /\ req[r].pc = "done" /\ req[r].result = "error"
        /\ PrimaryAvailable /\ ~SecondaryAvailable
        /\ req[r].failed = {"openai"}
        /\ ~req[r].overlapped

\* C8: within one request the providers are called one after the other and
\* never twice: the secondary only after the primary call of the request has
\* failed, or first when the primary is unavailable.
C8_SequentialNoRetry ==
    \A r \in Slots :
        /\ req[r].calls \in {<<>>, <<"openai">>, <<"qwen">>, <<"openai", "qwen">>}
        /\ req[r].calls = <<"openai", "qwen">> => "openai" \in req[r].failed
        /\ req[r].calls = <<"qwen">> => ~PrimaryAvailable
        /\ req[r].pc = "callOpenAI" =>
              req[r].calls = <<"openai">> /\ req[r].failed = {}
        /\ req[r].pc = "callQwen" => "qwen" \notin req[r].failed

C8_Witness ==
    \E r \in Slots :
        /\ req[r].pc = "callQwen"
        /\ req[r].calls = <<"openai", "qwen">>
        /\ req[r].failed = {"openai"}

\* C9: the modelInfo of every 200 response of POST /api/chat names the
\* provider that generated the text, and isFallback is true exactly when that
\* provider is the secondary.
C9_ModelInfoNamesProducer ==
    \A r \in Slots :
        (req[r].pc = "done" /\ req[r].kind = "http" /\ req[r].status = 200) =>
            /\ req[r].modelInfo.model = req[r].producer
            /\ req[r].modelInfo.isFallback = (req[r].producer = "qwen")

\* C10: after a POST /api/chat that overlapped no other request has answered
\* 200, and with no other request around, GET /api/model-status reports the
\* provider that produced the text of that answer.
C10_StatusReportsLastProducer ==
    \A r \in Slots :
        ( /\ req[r].pc = "done" /\ req[r].kind = "http" /\ req[r].status = 200
          /\ ~req[r].overlapped
          /\ \A s \in Slots \ {r} : req[s].pc = "idle" ) =>
            modelStatusResponse.model = req[r].producer

\* C11: no value of currentModel is final.  Whatever value earlier requests
\* left ('openai', 'qwen' or 'unavailable'), a request for which the primary
\* is available is never refused, checks availability again and calls the
\* primary first; when that call succeeds the request returns the primary's
\* text and, no other request having been in flight, currentModel is 'openai'.
C11_NoStateIsTerminal ==
    PrimaryAvailable =>
        \A r \in Slots :
            /\ req[r].status # 503
            /\ Entered(r) =>
                  /\ req[r].modelBefore \in {"openai", "qwen", "unavailable"}
                  /\ req[r].calls # <<>>
                  /\ req[r].calls[1] = "openai"
                  /\ (Ended(r) /\ "openai" \notin req[r].failed) =>
                        /\ req[r].calls = <<"openai">>
                        /\ req[r].result = "text"
                        /\ req[r].producer = "openai"
                        /\ req[r].text \in {OpenAIText(c) : c \in OpenAITexts}
                        /\ ~req[r].overlapped => req[r].modelAfter = "openai"

C11_Witness ==
    /\ PrimaryAvailable
    /\ \E r \in Slots :
          /\ req[r].pc = "done" /\ req[r].kind = "http" /\ req[r].status = 200
          /\ req[r].modelBefore = "unavailable"
          /\ ~req[r].overlapped
          /\ req[r].producer = "openai"
          /\ req[r].text = <<"h", "i">>
          /\ req[r].modelAfter = "openai"

C11_WitnessFromFallback ==
    /\ PrimaryAvailable
    /\ \E r \in Slots :
          /\ req[r].pc = "done" /\ req[r].modelBefore = "qwen"
          /\ ~req[r].overlapped
          /\ req[r].producer = "openai" /\ req[r].modelAfter = "openai"

\* the cached status is the one the last status query answered with: no chat
\* request has refreshed it since
NoChatSinceQuery == statusResp # NoRow /\ currentModelStatus = statusResp

\* C12 as stated: a status query made within five minutes of the previous
\* status query, with no chat request in between, returns the lastChecked the
\* previous query returned.
C12_QueriesWithinFiveMinutesAgree ==
    [][ ( /\ ModelStatus
          /\ NoChatSinceQuery
          /\ now - statusAt <= FiveMinutes )
        => statusResp'.lastChecked = statusResp.lastChecked ]_vars

\* C12 amended: a status query made within five minutes of the lastChecked
\* that the previous status query returned, with no chat request in between,
\* returns the same status, lastChecked included.
C12_QueriesWithinFiveMinutesOfCheckAgree ==
    [][ ( /\ ModelStatus
          /\ NoChatSinceQuery
          /\ now - statusResp.lastChecked <= FiveMinutes )
        => statusResp' = statusResp ]_vars

\* no chat request at all; a first query checked again at lastChecked > 0 and
\* a later query answered with that same lastChecked
C12_Witness ==
    /\ started = 0
    /\ statusResp # NoRow
    /\ statusResp.lastChecked > 0
    /\ statusAt > statusResp.lastChecked
    /\ statusAt - statusResp.lastChecked <= FiveMinutes

\* C13: every status response carries a lastChecked at most five minutes
\* older than the time of the query; a query that found an older one has
\* run the availability check again and answers with its result.
C13_StatusResponseIsFresh ==
    statusResp # NoRow =>
        /\ statusResp.lastChecked <= statusAt
        /\ statusAt - statusResp.lastChecked <= FiveMinutes
        /\ statusResp.isOpenAIAvailable = PrimaryAvailable
        /\ statusResp.isQwenAvailable = SecondaryAvailable
        /\ statusResp.model = ModelFor(PrimaryAvailable, SecondaryAvailable)

\* no chat request at all and more than five minutes after start-up: the
\* query itself has checked again
C13_Witness ==
    /\ started = 0
    /\ statusResp # NoRow
    /\ statusAt > FiveMinutes
    /\ statusResp.lastChecked = statusAt

Called(name) == fn.name = name /\ fn.done

\* C14: whatever the transcript (empty, system turns only, ending with an
\* assistant turn, ...), the transcript convertMessages builds starts with the
\* system message, ends with a user turn, and otherwise is the input without
\* its system turns; a placeholder user turn is added exactly when the input
\* without its system turns is empty or does not end with a user turn.
C14_OutboundEndsWithUserTurn ==
    Called("convertMessages") =>
        LET out == fn.out
            kept == compatibleMessages(fn.in.messages)
            needed == kept = <<>> \/ kept[Len(kept)].role # "user"
            body == SubSeq(out, 2, Len(out))
        IN  /\ Len(out) >= 2
            /\ out[1].role = "system"
            /\ out[Len(out)].role = "user"
            /\ \A k \in 2..Len(out) : out[k].role # "system"
            /\ needed => /\ body = Append(kept, out[Len(out)])
                         /\ out[Len(out)] \in {IntroduceYourself, HelpMeWithThis}
            /\ ~needed => body = kept

\* a transcript that ends with an assistant turn
C14_Witness ==
    /\ Called("convertMessages")
    /\ fn.in.messages # <<>>
    /\ fn.in.messages[Len(fn.in.messages)].role = "assistant"
    /\ fn.out[Len(fn.out)] = HelpMeWithThis
    /\ Len(fn.out) = Len(fn.in.messages) + 2

\* a transcript of system turns only
C14_WitnessSystemOnly ==
    /\ Called("convertMessages")
    /\ fn.in.messages # <<>>
    /\ \A k \in 1..Len(fn.in.messages) : fn.in.messages[k].role = "system"
    /\ fn.out[Len(fn.out)] = IntroduceYourself
    /\ Len(fn.out) = 2

\* s has a substring of the form <...>
HasTag(s) == \E i, j \in 1..Len(s) : i < j /\ s[i] = "<" /\ s[j] = ">"

\* s has a <think>...</think> section
HasThinkSection(s) ==
    \E i, j \in 1..Len(s) : i + 2 < j /\ IsThinkOpen(s, i) /\ IsThinkClose(s, j)

\* s has three or more newlines in a row
HasLongNewlineRun(s) == \E i \in 1..Len(s) : NewlineRun(s, i) >= 3

\* what generateFallbackResponse returned, without the note at its end
BeforeNote(s) == SubSeq(s, 1, Len(s) - Len(FallbackNote))

\* C15: for every text the Qwen model returns, what generateFallbackResponse
\* returns ends with the fallback note, and the text before the note has no
\* <think>...</think> section, no substring <...>, no run of three or more
\* newlines, and is not empty.
C15_FallbackTextIsClean ==
    (Called("generateFallbackResponse") /\ fn.in.kind = "content") =>
        /\ EndsWith(fn.out, FallbackNote)
        /\ ~HasThinkSection(BeforeNote(fn.out))
        /\ ~HasTag(BeforeNote(fn.out))
        /\ ~HasLongNewlineRun(BeforeNote(fn.out))
        /\ BeforeNote(fn.out) # <<>>

\* a text with a think section in it
C15_Witness ==
    /\ Called("generateFallbackResponse") /\ fn.in.kind = "content"
    /\ HasThinkSection(fn.in.content)
    /\ fn.out = <<"a">> \o FallbackNote

\* a text with a tag that is not a think tag
C15_WitnessTag ==
    /\ Called("generateFallbackResponse") /\ fn.in.kind = "content"
    /\ fn.in.content = <<"a", "<", "b", ">", " ", "a">>
    /\ fn.out = <<"a", " ", "a">> \o FallbackNote

\* a text with three newlines in a row
C15_WitnessNewlines ==
    /\ Called("generateFallbackResponse") /\ fn.in.kind = "content"
    /\ fn.in.content = <<"a", "\n", "\n", "\n", "a">>
    /\ fn.out = <<"a", "\n", "\n", "a">> \o FallbackNote

Alice == <<"A", "l", "i", "c", "e">>

\* C16: for every context that contains "My name is Alice" the name the
\* fallback composer extracts is "Alice", the system message it builds says
\* so, and the name used is the one of the first name pattern that matched.
C16_AliceIsExtracted ==
    ( /\ Called("convertMessages")
      /\ fn.in.userSystemContext \in AliceContexts ) =>
        LET ctx == fn.in.userSystemContext
        IN  /\ userName(ctx) = Alice
            /\ includes(fn.out[1].content, InfoLine("- Your name is ", Alice))
            /\ userName(ctx) = FirstTruthy(nameMatches(ctx))

\* a prompt composer has run on a context and a transcript with a name question
ComposedForNameQuestion(name) ==
    /\ Called(name)
    /\ Truthy(fn.in.userSystemContext)
    /\ hasNameQuestion(fn.in.messages)

\* C17: when a user context is given and a message of the transcript has a
\* name question in it, the system message of either composer has the
\* reminder in it, naming the name extracted from the context.
C17_NameQuestionAddsReminder ==
    /\ ComposedForNameQuestion("convertMessages") =>
          /\ Truthy(userName(fn.in.userSystemContext))
          /\ includes(fn.out[1].content,
                      <<ReminderHead>> \o userName(fn.in.userSystemContext)
                      \o <<ReminderTail>>)
    /\ ComposedForNameQuestion("conversationWithSystem") =>
          ReminderHead \in Range(fn.out[1].content)

\* the part of C17 about the OpenAI composer alone
C17_OpenAIComposerAddsReminder ==
    ComposedForNameQuestion("conversationWithSystem") =>
        ReminderHead \in Range(fn.out[1].content)

\* the part of C17 about the fallback composer alone
C17_FallbackReminderNamesExtractedName ==
    ComposedForNameQuestion("convertMessages") =>
        /\ Truthy(userName(fn.in.userSystemContext))
        /\ includes(fn.out[1].content,
                    <<ReminderHead>> \o userName(fn.in.userSystemContext)
                    \o <<ReminderTail>>)

\* what the fallback composer does do: the reminder is there, naming the
\* extracted name or, without one, Bella Lawrence
C17_FallbackReminderPresent ==
    ComposedForNameQuestion("convertMessages") =>
        includes(fn.out[1].content, NameReminder(fn.in.userSystemContext))

\* C18: the system message of either composer has the "User Details" heading
\* exactly when a non-empty user context is given; without one it is the
\* base template: for the fallback composer the text before and the text
\* after {botInstructions}, with the bot instructions, if any, between them
\* (as they are when no "$" is in them, which replace() would expand).
C18_UserDetailsIffContext ==
    /\ Called("convertMessages") =>
          LET content == fn.out[1].content
              given == Truthy(fn.in.userSystemContext)
              bot == IF Truthy(fn.in.botInstructions)
                     THEN fn.in.botInstructions ELSE <<>>
          IN  /\ (UserDetailsHeading \in Range(content)) <=> given
              /\ ~given =>
                    /\ StartsWith(content, QwenTemplateHead)
                    /\ EndsWith(content, QwenTemplateTail)
                    /\ "$" \notin Range(bot) =>
                          content = QwenTemplateHead \o bot \o QwenTemplateTail
    /\ Called("conversationWithSystem") =>
          LET content == fn.out[1].content
              given == Truthy(fn.in.userSystemContext)
          IN  /\ (UserDetailsHeading \in Range(content)) <=> given
              /\ ~given => content = OpenAITemplate

\* the fallback composer given an empty context, and given the raw text of a
\* context no pattern matches
C18_Witness ==
    /\ Called("convertMessages")
    /\ fn.in.userSystemContext \in OtherContexts
    /\ userInfo(fn.in.userSystemContext) = <<>>
    /\ bellaInfo(fn.in.userSystemContext) = <<>>
    /\ includes(fn.out[1].content,
                <<UserDetailsHeading>> \o fn.in.userSystemContext)

C18_WitnessNoContext ==
    /\ Called("conversationWithSystem")
    /\ fn.in.userSystemContext = <<>>
    /\ fn.out[1].content = OpenAITemplate

C18_WitnessOpenAIFacts ==
    /\ Called("conversationWithSystem")
    /\ includes(fn.out[1].content,
                <<UserDetailsHeading, "- Name: ">> \o Alice \o <<"\n">>)

\* the kind of error a message of generateChatResponse stands for
KindOfMessage(m) ==
    IF m = "OpenAI API quota exceeded. Your account may need a valid payment method or has reached its limit."
    THEN "quota_exceeded"
    ELSE IF m = "Rate limit exceeded. Please try again later."
    THEN "rate_limited"
    ELSE IF m = "API key is invalid or expired."
    THEN "unauthorized"
    ELSE IF m = "No response received from AI service. Please check your internet connection."
    THEN "network_unreachable"
    ELSE IF m \in {"OpenAI API error: " \o a : a \in {"Unknown error", "boom"}}
                  \cup {"Error: " \o x : x \in {"", "socket hang up"}}
    THEN "unknown"
    ELSE "none"

\* the kind the claim gives to a shape of error
KindOfShape(e) ==
    IF e.response = 429 /\ e.code = "insufficient_quota" THEN "quota_exceeded"
    ELSE IF e.response = 429 THEN "rate_limited"
    ELSE IF e.response = 401 THEN "unauthorized"
    ELSE IF e.response = 0 /\ e.request THEN "network_unreachable"
    ELSE "unknown"

\* C19: the error thrown after a failure of the primary call is of one kind,
\* given by the shape of the primary error: status 429 with code
\* insufficient_quota is quota_exceeded, any other 429 rate_limited, 401
\* unauthorized, a request without response network_unreachable, and every
\* other shape unknown.
C19_ErrorClassifiedByShape ==
    Called("ErrorMessage") => KindOfMessage(fn.out) = KindOfShape(fn.in)

C19_Witness ==
    /\ Called("ErrorMessage")
    /\ fn.in.response = 429 /\ fn.in.code = "insufficient_quota"
    /\ fn.in.request
    /\ KindOfMessage(fn.out) = "quota_exceeded"

C19_WitnessUnknown ==
    /\ Called("ErrorMessage")
    /\ fn.in.response = 403 /\ fn.in.code = "insufficient_quota"
    /\ fn.out = "OpenAI API error: boom"

\* the server is as it was at start: no request, no provider call, no message
ServerUntouched ==
    /\ currentModel = "openai"
    /\ currentModelStatus = updateModelStatus(openaiKey, novitaKey, 0)
    /\ \A r \in Slots : req[r] = IdleReq
    /\ messages = <<>>
    /\ started = 0

\* C20: canUseOpenAI is true exactly for a key that is set, starts with 'sk-'
\* and is longer than 20 characters; canUseQwen is true exactly for a key
\* that is set and not empty; neither calls a provider or changes the state
\* of the server.
C20_AvailabilityChecksAreLocal ==
    /\ Called("canUseOpenAI") =>
          /\ fn.out <=> ( /\ fn.in # Undefined
                          /\ Len(fn.in) > 20
                          /\ SubSeq(fn.in, 1, 3) = <<"s", "k", "-">> )
          /\ ServerUntouched
    /\ Called("canUseQwen") =>
          /\ fn.out <=> (fn.in # Undefined /\ Len(fn.in) >= 1)
          /\ ServerUntouched

\* a key of 21 characters is accepted
C20_Witness ==
    /\ Called("canUseOpenAI")
    /\ fn.in # Undefined /\ Len(fn.in) = 21
    /\ fn.out = TRUE

\* a key of 20 characters is not
C20_WitnessTooShort ==
    /\ Called("canUseOpenAI")
    /\ fn.in # Undefined /\ Len(fn.in) = 20 /\ StartsWith(fn.in, <<"s", "k", "-">>)
    /\ fn.out = FALSE

C20_WitnessQwen ==
    /\ Called("canUseQwen")
    /\ fn.in = <<" ">>
    /\ fn.out = TRUE

\* the ids of the rows of a table
Ids(table) == {table[i].id : i \in 1..Len(table)}

\* the rows of a table whose id is in a set, in table order
RowsWithIds(table, ids) == SelectSeq(table, LAMBDA m : m.id \in ids)

\* C21: stored messages are append-only.  In every step a stored row either
\* stays as it is, or goes in the deleteMessages step of a conversation delete
\* that removes every row of its conversation; the rows that stay keep their
\* order, a new row gets a fresh id and goes to the end, and the delete
\* that removed the rows goes on to remove the conversation row.
C21_MessagesAppendOnly ==
    [][ /\ \A i \in 1..Len(messages) :
              \/ \E j \in 1..Len(messages') : messages'[j] = messages[i]
              \/ /\ messages[i].id \notin Ids(messages')
                 /\ \E r \in Slots :
                       /\ req[r].pc = "deleteMessages" /\ req'[r].pc = "deleteRow"
                       /\ req[r].convId = messages[i].conversationId
                       /\ getMessages(messages', req[r].convId) = {<<>>}
        /\ RowsWithIds(messages', Ids(messages))
              = RowsWithIds(messages, Ids(messages'))
        /\ \A j \in 1..Len(messages') :
              messages'[j].id \notin Ids(messages) =>
                  /\ \A i \in 1..Len(messages) : messages[i].id < messages'[j].id
                  /\ j = Len(messages')
        /\ \A r \in Slots :
              (req[r].pc = "deleteRow" /\ req'[r].pc # "deleteRow") =>
                  conversations'[req[r].convId] = NoRow
      ]_vars

\* a delete of "c1" has succeeded: its rows are gone, the others are stored
C21_Witness ==
    /\ \E r \in Slots : req[r].kind = "delete" /\ req[r].status = 200
                        /\ req[r].convId = "c1"
    /\ getMessages(messages, "c1") = {<<>>}
    /\ getMessages(messages, "default") = getMessages(StoredAtStart, "default")

\* a chat has appended its two rows behind the rows stored before
C21_WitnessAppended ==
    /\ Len(messages) = Len(StoredAtStart) + 2
    /\ SubSeq(messages, 1, Len(StoredAtStart)) = StoredAtStart

\* C22: a conversation that belongs to a user is read, deleted, retitled or
\* given a personality by its owner only.  A request of a conversation route
\* that has got past the ownership check (it holds the row it read) on a row
\* with an owner is a request of that owner; every other one was answered 403.
C22_OwnedConversationOnlyForOwner ==
    \A r \in Slots :
        (req[r].snap # NoRow /\ req[r].snap.userId # NoUser) =>
            req[r].user = req[r].snap.userId

\* C23: every stored message belongs to a conversation that exists, in every
\* state reached by chat requests interleaved with conversation deletes;
\* while a delete is between its two statements the row is still there, so
\* this also says that no message of a deleted conversation remains or is
\* added later.
C23_MessagesBelongToConversations ==
    \A i \in 1..Len(messages) : conversations[messages[i].conversationId] # NoRow

\* C24: a POST /api/chat that ends in an error response (status 4xx or 5xx)
\* has stored nothing: the request has inserted no row, so it leaves no user
\* message without its assistant reply.
C24_FailedChatStoresNothing ==
    \A r \in Slots :
        (req[r].kind = "http" /\ req[r].status >= 400) =>
            req[r].inserted = <<>>

\* the ids of the rows of a conversation, in the orders getMessages can
\* answer
TranscriptIds(conversationId) ==
    {[i \in 1..Len(rows) |-> rows[i].id] :
        rows \in getMessages(messages, conversationId)}

\* C25: a POST /api/chat answered 200 has stored exactly two rows, its user
\* message and then the assistant reply, and in the transcript of its
\* conversation, however getMessages answers it, the reply comes immediately
\* after that user message, also when other chat requests on the
\* conversation are in flight.
C25_ReplyFollowsItsUserMessage ==
    \A r \in Slots :
        (req[r].kind = "http" /\ req[r].status = 200) =>
            /\ Len(req[r].inserted) = 2
            /\ \E i \in 1..Len(messages) :
                  /\ messages[i].id = req[r].inserted[1]
                  /\ messages[i].role = "user"
            /\ \E i \in 1..Len(messages) :
                  /\ messages[i].id = req[r].inserted[2]
                  /\ messages[i].role = "assistant"
            /\ \A ids \in TranscriptIds(req[r].convId) :
                  \E k \in 1..Len(ids) - 1 :
                      /\ ids[k] = req[r].inserted[1]
                      /\ ids[k + 1] = req[r].inserted[2]

\* the transcript of a request body ends with a user message
EndsWithUserTurn(body) == body # <<>> /\ body[Len(body)].role = "user"

\* C26: a POST /api/chat whose transcript does not end with a user message,
\* the empty transcript included, is answered 400 with no provider call and
\* no row stored (unless it was refused before its transcript was looked at:
\* 503 with no model, 404 or 403 for the conversation).
C26_TranscriptMustEndWithUser ==
    \A r \in Slots :
        ( /\ req[r].kind = "http" /\ req[r].pc = "done"
          /\ ~EndsWithUserTurn(req[r].body)
          /\ req[r].status \notin {503, 404, 403} ) =>
            /\ req[r].status = 400
            /\ req[r].calls = <<>>
            /\ req[r].inserted = <<>>

\* the model of a status record agrees with its two availability flags
StatusConsistent(status) ==
    /\ status.model \in {"openai", "qwen", "unavailable"}
    /\ status.model = "openai" <=> status.isOpenAIAvailable
    /\ status.model = "qwen" <=>
          (~status.isOpenAIAvailable /\ status.isQwenAvailable)
    /\ status.model = "unavailable" <=>
          (~status.isOpenAIAvailable /\ ~status.isQwenAvailable)

\* C27: the status record is internally consistent before and after every
\* step, and no step makes its lastChecked smaller.
C27_StatusRecordConsistent ==
    [][ /\ StatusConsistent(currentModelStatus)
        /\ StatusConsistent(currentModelStatus')
        /\ currentModelStatus'.lastChecked >= currentModelStatus.lastChecked
      ]_vars

\* the record was written again at a later time, with the fallback as model
C27_Witness ==
    /\ currentModelStatus.lastChecked > 0
    /\ currentModelStatus.model = "qwen"
    /\ ~currentModelStatus.isOpenAIAvailable
    /\ currentModelStatus.isQwenAvailable

\* the record written again with both providers available
C27_WitnessBoth ==
    /\ currentModelStatus.lastChecked > 0
    /\ currentModelStatus.model = "openai"
    /\ currentModelStatus.isOpenAIAvailable
    /\ currentModelStatus.isQwenAvailable

\* the record written again with no provider available
C27_WitnessUnavailable ==
    /\ currentModelStatus.lastChecked > 0
    /\ currentModelStatus.model = "unavailable"

\* C28: a step of a title update creates no conversation and changes nothing
\* but the title of its conversation: a row that is not there (never created,
\* or deleted by a delete running in between) is not there after the step, and
\* a row that is there keeps its personality and its owner.
C28_TitleUpdateChangesTitleOnly ==
    [][ \A r \in Slots :
          (req[r].kind = "title" /\ req'[r] # req[r]) =>
              \A id \in ConvIds :
                  IF conversations[id] = NoRow
                  THEN conversations'[id] = NoRow
                  ELSE /\ conversations'[id] # NoRow
                       /\ conversations'[id].personality
                             = conversations[id].personality
                       /\ conversations'[id].userId = conversations[id].userId
                       /\ id # req[r].convId =>
                             conversations'[id] = conversations[id]
      ]_vars

\* C29: the conversation "default" is never deleted.  Its row and the rows of
\* its messages stay in every state; a DELETE of "default" is answered 400, a
\* deleteConversation("default") returns false, and neither gets as far as
\* the statements that delete.
C29_DefaultIsNeverDeleted ==
    /\ conversations["default"] # NoRow
    /\ \A rows \in getMessages(messages, "default") :
          \A before \in getMessages(StoredAtStart, "default") :
              \A i \in 1..Len(before) : \E j \in 1..Len(rows) : rows[j] = before[i]
    /\ \A r \in Slots :
          (req[r].kind \in {"delete", "storage"} /\ req[r].convId = "default") =>
              /\ req[r].pc \in {"idle", "done"}
              /\ req[r].kind = "delete" => req[r].status = 400
              /\ req[r].kind = "storage" => req[r].result = "false"

\* a DELETE of "default" has been answered 400
C29_Witness ==
    \E r \in Slots :
        /\ req[r].kind = "delete" /\ req[r].convId = "default"
        /\ req[r].status = 400
        /\ getMessages(messages, "default") # {<<>>}

\* deleteConversation("default") has returned false
C29_WitnessStorage ==
    \E r \in Slots :
        /\ req[r].kind = "storage" /\ req[r].convId = "default"
        /\ req[r].result = "false"
        /\ getMessages(messages, "default") # {<<>>}

\* the outcome of generateImage is one the claim allows
ImageOutcomeAllowed ==
    \/ /\ fn.out.kind = "return"
       /\ fn.out.value = ImageUrl
       /\ fn.last.ok /\ fn.last.status = "succeeded"
    \/ /\ fn.out.kind = "throw"
       /\ fn.out.message[2] = "Timed out waiting for image generation" =>
             (fn.polls = maxAttempts /\ ~Truthy(fn.imageUrl))
       /\ fn.out.message[2] = "Image generation failed: " =>
             fn.last.status = "failed"
       /\ fn.out.message[2] = "Replicate API status error: " => ~fn.last.ok

\* C30: generateImage makes at most 30 status polls, it ends, and when it
\* has ended it has returned the URL of a prediction that succeeded or has
\* thrown; it throws for a timeout only after the 30th poll.
C30_PollingTerminates ==
    /\ [](fn.polls <= maxAttempts)
    /\ [](fn.done => ImageOutcomeAllowed)
    /\ <>fn.done

\* the URL came with the 30th poll
C30_Witness ==
    /\ Called("generateImage")
    /\ fn.polls = maxAttempts
    /\ fn.out.kind = "return"

\* no URL after 30 polls: the function has thrown
C30_WitnessTimeout ==
    /\ Called("generateImage")
    /\ fn.polls = maxAttempts
    /\ fn.out.kind = "throw"
    /\ fn.out.message[2] = "Timed out waiting for image generation"

\* a prediction that succeeded with no output is polled again
C30_WitnessNoOutput ==
    /\ fn.name = "generateImage" /\ fn.pc = "poll"
    /\ fn.last.status = "succeeded" /\ fn.polls > 0

============================================================================
